---------------------------- MODULE Spec2Model ----------------------------
(***************************************************************************)
(* Model of the unified query service (services/unified-query-service):    *)
(* QueryOrchestrator.query with its four modes, the per-source call with   *)
(* its retry budget, result post-processing, the QueryCache in front of it *)
(* and the QueryStats it maintains.                                        *)
(*                                                                         *)
(* Scores are integers in millionths (1000000 = 1.0).  Time is in seconds. *)
(* A Python Optional is a record [given, ...]; a Python dict that is       *)
(* iterated is a sequence of its entries in insertion order.               *)
(***************************************************************************)
EXTENDS Integers, Sequences, FiniteSets, TLC

VARIABLES
    adapters,   \* QueryOrchestrator.adapters: names in insertion order
    store,      \* the aiocache backend behind QueryCache.cache: key -> entry
    hits,       \* QueryCache.hits
    misses,     \* QueryCache.misses
    stats,      \* QueryOrchestrator.stats (QueryStats)
    now,        \* wall clock, seconds
    nCalls,     \* number of query calls started so far
    last,       \* what the most recent operation did and returned
    tasks,      \* the query coroutines in flight on the event loop
    deployments, \* WorkflowEngine.deployments: deployment_id -> record
    deploys     \* the deploy_workflow coroutines in flight on the event loop

vars ==
    <<adapters, store, hits, misses, stats, now, nCalls, last, tasks, deployments, deploys>>

----------------------------------------------------------------------------
(* Bounds of the model *)

\* query calls per behaviour
MaxQueries == 2
\* clock ticks per behaviour
MaxTicks == 2
\* seconds per clock tick
TickSeconds == 150
\* clock ticks per behaviour of the cache specification
MaxCacheTicks == 2
\* seconds per clock tick of the cache specification
CacheTickSeconds == 300
\* direct cache operations per behaviour of the cache specification
MaxCacheOps == 4

----------------------------------------------------------------------------
(* Sequences *)

Range(s) == {s[i] : i \in 1..Len(s)}

Take(s, n) == SubSeq(s, 1, IF n < Len(s) THEN n ELSE Len(s))

\* The element of a one-element set.  { e(x) : x \in {v} } evaluates v once
\* and names it x in e.
Only(S) == CHOOSE x \in S : TRUE

RECURSIVE Flatten(_)
Flatten(ss) == IF ss = <<>> THEN <<>> ELSE Head(ss) \o Flatten(Tail(ss))

\* Where Python's stable sorted(s, key=...) puts s[i], ks[i] being the
\* integer key of s[i]: after every element with a smaller key and after
\* the earlier elements with the same key.
SortedPos(ks, i) ==
    Cardinality({j \in 1..Len(ks) : ks[j] < ks[i] \/ (ks[j] = ks[i] /\ j < i)}) + 1

\* sorted(s, key=...), ascending by the keys ks
Sorted(s, ks) ==
    Only({ [p \in 1..Len(s) |-> s[CHOOSE i \in 1..Len(s) : pos[i] = p]] :
           pos \in {[i \in 1..Len(s) |-> SortedPos(ks, i)]} })

----------------------------------------------------------------------------
(* config.py *)

\* Settings.MEMORY_SYSTEM_CONFIG, in the order its items() are iterated
MEMORY_SYSTEM_CONFIG ==
    << [name |-> "cognee",
        features |-> {"semantic_search", "graph_traversal", "concept_linking"}],
       [name |-> "memento",
        features |-> {"key_value", "fast_retrieval", "simple_storage"}],
       [name |-> "memos",
        features |-> {"multi_type_memory", "user_context", "activation_memory"}],
       [name |-> "llamacloud",
        features |-> {"document_search", "structured_extraction", "rag"}] >>

SourceNames == {MEMORY_SYSTEM_CONFIG[i].name : i \in 1..Len(MEMORY_SYSTEM_CONFIG)}

\* The order in which QueryOrchestrator.initialize inserts the adapters
InitOrder == <<"cognee", "memento", "memos", "llamacloud">>

\* The values Settings.ENABLED_MEMORY_SYSTEMS takes in the model
EnabledChoices == { {}, {"cognee", "memos"} }

\* Settings.CACHE_CONFIG["query_cache"]["ttl"], the ttl the backend is built with
DefaultTTL == 300

\* Settings.CACHE_CONFIG["query_cache"]["max_size"], read into
\* QueryCache.max_size; 1000 in config.py, scaled to 2 so that a behaviour
\* can insert more than max_size keys.
max_size == 2

\* stop_after_attempt(3) on _query_single_source
stop_after_attempt == 3

\* options.get("max_results", 10)
DefaultMaxResults == 10

\* Settings.RANKING_WEIGHTS, in tenths
RANKING_WEIGHTS ==
    [relevance |-> 4, recency |-> 2, source_trust |-> 2, user_preference |-> 2]

One == 1000000

----------------------------------------------------------------------------
(* models.py *)

QueryMode == {"unified", "sequential", "parallel", "smart"}

\* Optional[...] arguments of query()
None == [given |-> FALSE, list |-> <<>>]
Some(l) == [given |-> TRUE, list |-> l]

\* Python truthiness of an Optional list or dict: None and empty are falsy
Truthy(opt) == opt.given /\ opt.list # <<>>

\* QueryStats(): a dict counter is a total function, an absent key being 0
\* (the code reads it with .get(key, 0)); average_latency is the exact
\* fraction num/den.
NewStats ==
    [total_queries |-> 0,
     queries_by_mode |-> [m \in QueryMode |-> 0],
     queries_by_source |-> [s \in SourceNames |-> 0],
     average_latency |-> [num |-> 0, den |-> 1],
     cache_hit_rate |-> 0]


----------------------------------------------------------------------------
(* The memory backends behind the adapters (adapters.py) *)

\* What a backend's search answers when it answers in time, after the
\* adapter's transformation (adapters.py: id, content, score, metadata).
\* Only CogneeAdapter fills metadata["keywords"] and metadata["entities"].
Raw(id, content, score, keywords, entities) ==
    [id |-> id, content |-> content, score |-> score,
     keywords |-> keywords, entities |-> entities]

Answer(source) ==
    CASE source = "cognee" ->
            << Raw("c1", "Alpha", 900000, {"sky"}, {"Rayleigh"}),
               Raw("c2", "beta", 500000, {}, {}) >>
      [] source = "memos" ->
            << Raw("m1", "alpha ", 800000, {}, {}),
               Raw("m2", "Gamma", 1000000, {}, {}) >>
      [] source = "memento" ->
            << Raw("k1", "gamma", 700000, {}, {}) >>
      [] source = "llamacloud" ->
            << Raw("l1", " Beta", 600000, {}, {}) >>
      [] OTHER -> <<>>

\* content.lower().strip() on the contents above
Normalize(content) ==
    CASE content \in {"Alpha", "alpha "} -> "alpha"
      [] content \in {"beta", " Beta"} -> "beta"
      [] content \in {"Gamma", "gamma"} -> "gamma"
      [] OTHER -> content

----------------------------------------------------------------------------
(* Query text: a sequence of whitespace-separated words *)

\* The routing keywords that occur as substrings of word.lower()
LowerTerms(word) ==
    CASE word = "why" -> {"why"}
      [] word = "show" -> {"how"}
      [] word = "who" -> {"who"}
      [] word = "when" -> {"when"}
      [] word = "pdf" -> {"pdf"}
      [] OTHER -> {}

\* The boolean operators that occur as substrings of the word as written
CaseTerms(word) ==
    CASE word = "AND" -> {"AND"}
      [] word = "ORDER" -> {"OR"}
      [] OTHER -> {}

AnyTerm(query, terms) == \E i \in 1..Len(query) : LowerTerms(query[i]) \cap terms # {}

\* QueryOrchestrator.analyze_query
analyze_query(query) ==
    LET query_type ==
            IF AnyTerm(query, {"how", "why", "explain"}) THEN "explanatory"
            ELSE IF AnyTerm(query, {"when", "date", "time"}) THEN "temporal"
            ELSE IF AnyTerm(query, {"who", "person", "user"}) THEN "entity"
            ELSE IF AnyTerm(query, {"document", "file", "pdf"}) THEN "document"
            ELSE "general"
        requires_context == query_type = "explanatory"
        complex ==
            \/ Len(query) > 10
            \/ \E i \in 1..Len(query) : CaseTerms(query[i]) \cap {"AND", "OR", "NOT"} # {}
    IN  [query_type |-> query_type,
         complexity |-> IF complex THEN "complex" ELSE "simple",
         requires_context |-> requires_context,
         broad_search |-> complex,
         recommended_sources |->
            CASE query_type = "explanatory" -> <<"cognee", "llamacloud">>
              [] query_type = "document" -> <<"llamacloud", "memos">>
              [] query_type = "entity" -> <<"memos", "cognee">>
              [] OTHER -> <<"cognee", "llamacloud", "memos">>,
         features_needed |->
            CASE query_type = "explanatory" -> {"semantic_search", "concept_linking"}
              [] query_type = "document" -> {"document_search", "structured_extraction"}
              [] query_type = "entity" -> {"user_context", "graph_traversal"}
              [] OTHER -> {"semantic_search", "fast_retrieval"},
         mode |-> IF requires_context THEN "sequential"
                  ELSE IF complex THEN "unified" ELSE "smart"]

\* QueryOrchestrator._select_sources_for_query; ads is self.adapters
_select_sources_for_query(analysis, available_sources, ads) ==
    LET Recommended(s) == s \in Range(available_sources) /\ s \in Range(ads)
        first == SelectSeq(analysis.recommended_sources, Recommended)
        Featured(c) ==
            /\ c.name \in Range(available_sources)
            /\ c.name \notin Range(first)
            /\ c.features \cap analysis.features_needed # {}
        more == SelectSeq(MEMORY_SYSTEM_CONFIG, Featured)
        selected == first \o [i \in 1..Len(more) |-> more[i].name]
    IN  IF selected = <<>> THEN available_sources ELSE selected

----------------------------------------------------------------------------
(* orchestrator.py: one call on one source *)

\* What a callee hands back: its return value, or the exception it raised,
\* and the adapter searches it made, in the order they were started.
Returned(results, groups, log) ==
    [raised |-> FALSE, error |-> "", results |-> results, groups |-> groups, log |-> log]

Raised(error, log) ==
    [raised |-> TRUE, error |-> error, results |-> <<>>, groups |-> <<>>, log |-> log]

\* One entry of the log: the searches made on one source by one
\* _query_single_source call (attempts of them), whether the call returned,
\* and the context hint folded into the query text it was given.
Call(source, attempts, ok, hint) ==
    [source |-> source, attempts |-> attempts, ok |-> ok, hint |-> hint]

NoContext == [key_terms |-> {}, entities |-> {}]

\* One item of the options dict: its key and its value, a number (a bool
\* being the number 0 or 1, as in Python) or a string
Opt(key, n) == [key |-> key, n |-> n, s |-> ""]
OptS(key, str) == [key |-> key, n |-> 0, s |-> str]

\* dict.get(key, default) on the options dict
OptGet(options, key, default) ==
    IF \E i \in 1..Len(options.list) : options.list[i].key = key
    THEN LET i == CHOOSE j \in 1..Len(options.list) : options.list[j].key = key
         IN  options.list[i]
    ELSE default

\* In place of a number of timeouts: the HTTP request of the adapter's search
\* fails (connection refused, an error status) at the first attempt
TransportError == 0 - 1

\* QueryResult(id=..., content=..., source=source, score=..., timestamp=utcnow())
QueryResult(raw, source, t) ==
    [id |-> raw.id, content |-> raw.content, source |-> source, score |-> raw.score,
     timestamp |-> t, keywords |-> raw.keywords, entities |-> raw.entities,
     has_terms |-> source = "cognee"]

\* QueryOrchestrator._query_single_source under @retry(stop_after_attempt(3)).
\* fails[source] is the number of consecutive attempts on the source that end
\* in asyncio.TimeoutError, or TransportError.  With options = None the
\* adapter's search raises inside its own try block and returns []; so it
\* does on a transport error, which never reaches the retry.
_query_single_source(source, hint, options, fails, ads, t) ==
    IF source \notin Range(ads) THEN Returned(<<>>, <<>>, <<>>)
    ELSE IF ~options.given \/ fails[source] = TransportError
         THEN Returned(<<>>, <<>>, <<Call(source, 1, TRUE, hint)>>)
    ELSE IF fails[source] >= stop_after_attempt
         THEN Raised("RetryError", <<Call(source, stop_after_attempt, FALSE, hint)>>)
    ELSE Returned([i \in 1..Len(Answer(source)) |-> QueryResult(Answer(source)[i], source, t)],
                  <<>>,
                  <<Call(source, fails[source] + 1, TRUE, hint)>>)

----------------------------------------------------------------------------
(* orchestrator.py: the four modes *)

\* A faulty gather, without return_exceptions: the first call that raised
\* raises out of it
GatheredOrRaised(rs) ==
    IF \E i \in 1..Len(rs) : rs[i].raised
    THEN Raised("RetryError", Flatten([i \in 1..Len(rs) |-> rs[i].log]))
    ELSE Returned(Flatten([i \in 1..Len(rs) |-> rs[i].results]),
                  <<>>,
                  Flatten([i \in 1..Len(rs) |-> rs[i].log]))

\* A faulty gather, which cancels the calls still running when a call fails:
\* they leave nothing
gather_cancelling(rs, completed) ==
    LET At(i) == CHOOSE k \in 1..Len(completed) : completed[k] = i
        failed == { k \in 1..Len(completed) : rs[completed[k]].raised }
    IN  [i \in 1..Len(rs) |->
           IF \E k \in failed : k < At(i) THEN Returned(<<>>, <<>>, <<>>) ELSE rs[i]]

\* A faulty gather, which returns when the first call has completed
gather_first_completed(rs, completed) ==
    [i \in 1..Len(rs) |-> IF completed[1] = i THEN rs[i] ELSE Returned(<<>>, <<>>, <<>>)]

\* asyncio.gather: as each call completes, what it returned or raised is put
\* in the slot of the call; slots holds the outcomes so far
RECURSIVE GatherSlots(_, _, _)
GatherSlots(slots, rs, completed) ==
    IF completed = <<>> THEN slots
    ELSE GatherSlots([slots EXCEPT ![Head(completed)] = rs[Head(completed)]],
                     rs, Tail(completed))

\* asyncio.gather(*calls, return_exceptions=True) once every call has
\* completed, the calls having completed in the order completed: the
\* outcomes in the order of the calls
gather(rs, completed) ==
    GatherSlots([i \in 1..Len(rs) |-> Returned(<<>>, <<>>, <<>>)], rs, completed)

\* What asyncio.gather(..., return_exceptions=True) leaves of the per-source
\* calls rs: the results of those that returned, flattened in source order
Gathered(rs) ==
    Returned(Flatten([i \in 1..Len(rs) |-> rs[i].results]),
             <<>>,
             Flatten([i \in 1..Len(rs) |-> rs[i].log]))

\* QueryOrchestrator._query_unified
_query_unified(sources, options, fails, ads, t) ==
    Only({ Gathered(rs) :
           rs \in {[i \in 1..Len(sources) |->
                     _query_single_source(sources[i], NoContext, options, fails, ads, t)]} })

\* QueryOrchestrator._update_context, on results[:5]; the real lists are cut
\* to 10 (context) and 5 (hint) terms, more than the backends above supply.
_update_context(context, results) ==
    LET top == Take(results, 5)
        with == {i \in 1..Len(top) : top[i].has_terms}
    IN  [key_terms |-> context.key_terms \cup UNION {top[i].keywords : i \in with},
         entities |-> context.entities \cup UNION {top[i].entities : i \in with}]

\* The context after the loop of _query_sequential has taken the result
\* lists rs in turn, starting from context = {}
RECURSIVE ContextAfter(_)
ContextAfter(rs) ==
    IF rs = <<>> THEN NoContext
    ELSE _update_context(ContextAfter(SubSeq(rs, 1, Len(rs) - 1)), rs[Len(rs)])

\* A faulty chain, which ends at the first call that raised
_query_sequential_break(sources, options, fails, ads, t) ==
    Only({ Only({ Returned(Flatten([i \in 1..n |-> plain[i].results]),
                           <<>>,
                           Flatten([i \in 1..n |->
                              [k \in 1..Len(plain[i].log) |->
                                 [plain[i].log[k] EXCEPT !.hint =
                                    ContextAfter([j \in 1..(i - 1) |-> plain[j].results])]]])) :
                  n \in {IF \E i \in 1..Len(plain) : plain[i].raised
                         THEN CHOOSE i \in 1..Len(plain) :
                                 /\ plain[i].raised
                                 /\ \A j \in 1..(i - 1) : ~plain[j].raised
                         ELSE Len(plain)} }) :
           plain \in {[i \in 1..Len(sources) |->
                        _query_single_source(sources[i], NoContext, options, fails, ads, t)]} })

\* QueryOrchestrator._query_sequential: source i is called with the context
\* of the calls before it that returned; a call that raised is skipped (its
\* result list is empty, which leaves the context as it was).  What a source
\* answers does not depend on the hint (plain); the hint is what the call
\* logged was given.
_query_sequential(sources, options, fails, ads, t) ==
    Only({ Returned(Flatten([i \in 1..Len(plain) |-> plain[i].results]),
                    <<>>,
                    Flatten([i \in 1..Len(plain) |->
                       [k \in 1..Len(plain[i].log) |->
                          [plain[i].log[k] EXCEPT !.hint =
                             ContextAfter([j \in 1..(i - 1) |-> plain[j].results])]]])) :
           plain \in {[i \in 1..Len(sources) |->
                        _query_single_source(sources[i], NoContext, options, fails, ads, t)]} })

\* Faulty groups, without a group for a call that raised
GroupedWithoutFailed(sources, rs) ==
    Returned(<<>>,
             SelectSeq([i \in 1..Len(rs) |->
                          [source |-> sources[i], results |-> rs[i].results,
                           raised |-> rs[i].raised]],
                       LAMBDA g : ~g.raised),
             Flatten([i \in 1..Len(rs) |-> rs[i].log]))

\* The groups of QueryOrchestrator._query_parallel: one per source, [] for a
\* call that raised
Grouped(sources, rs) ==
    Returned(<<>>,
             [i \in 1..Len(rs) |-> [source |-> sources[i], results |-> rs[i].results]],
             Flatten([i \in 1..Len(rs) |-> rs[i].log]))

\* QueryOrchestrator._query_parallel
_query_parallel(sources, options, fails, ads, t) ==
    Only({ Grouped(sources, rs) :
           rs \in {[i \in 1..Len(sources) |->
                     _query_single_source(sources[i], NoContext, options, fails, ads, t)]} })

\* A faulty continuation, which also fans out when the first call returned
\* exactly max_results results
SmartAfterFirstAtMost(first, selected_sources, options, fails, ads, t) ==
    IF first.raised THEN first
    ELSE IF ~options.given THEN Raised("AttributeError", first.log)
    ELSE IF Len(first.results) <= OptGet(options, "max_results", Opt("", DefaultMaxResults)).n
    THEN Only({ Returned(first.results \o more.results, <<>>, first.log \o more.log) :
                more \in {_query_unified(Tail(selected_sources), options, fails, ads, t)} })
    ELSE first

\* _query_smart after the first call: raise what it raised, else fan out to
\* the remaining sources when it returned fewer than max_results results
SmartAfterFirst(first, selected_sources, options, fails, ads, t) ==
    IF first.raised THEN first
    ELSE IF ~options.given THEN Raised("AttributeError", first.log)
    ELSE IF Len(first.results) < OptGet(options, "max_results", Opt("", DefaultMaxResults)).n
    THEN Only({ Returned(first.results \o more.results, <<>>, first.log \o more.log) :
                more \in {_query_unified(Tail(selected_sources), options, fails, ads, t)} })
    ELSE first

\* A faulty routing, with the two tests of the analysis in the other order
SmartRouteBroadFirst(analysis, selected_sources, options, fails, ads, t) ==
    IF analysis.broad_search
    THEN _query_unified(selected_sources, options, fails, ads, t)
    ELSE IF analysis.requires_context
    THEN _query_sequential(selected_sources, options, fails, ads, t)
    ELSE IF selected_sources = <<>> THEN Raised("IndexError", <<>>)
    ELSE Only({ SmartAfterFirst(first, selected_sources, options, fails, ads, t) :
                first \in {_query_single_source(selected_sources[1], NoContext,
                                                options, fails, ads, t)} })

\* _query_smart once the analysis and the selected sources are known
SmartRoute(analysis, selected_sources, options, fails, ads, t) ==
    IF analysis.requires_context
    THEN _query_sequential(selected_sources, options, fails, ads, t)
    ELSE IF analysis.broad_search
    THEN _query_unified(selected_sources, options, fails, ads, t)
    ELSE IF selected_sources = <<>> THEN Raised("IndexError", <<>>)
    ELSE Only({ SmartAfterFirst(first, selected_sources, options, fails, ads, t) :
                first \in {_query_single_source(selected_sources[1], NoContext,
                                                options, fails, ads, t)} })

\* QueryOrchestrator._query_smart
_query_smart(query, sources, options, fails, ads, t) ==
    Only({ Only({ SmartRoute(analysis, selected_sources, options, fails, ads, t) :
                  selected_sources \in {_select_sources_for_query(analysis, sources, ads)} }) :
           analysis \in {analyze_query(query)} })

----------------------------------------------------------------------------
(* ranking.py *)

\* RankingEngine._get_source_trust, in millionths
_get_source_trust(source) ==
    CASE source = "cognee" -> 900000
      [] source = "llamacloud" -> 850000
      [] source = "memos" -> 800000
      [] source = "memento" -> 700000
      [] OTHER -> 500000

\* The time constant of the recency decay, in hours
WeekHours == 168

\* A faulty decay, which grows with age: math.exp(age_hours / 168)
RecencyGrowth(age_hours) ==
    CASE age_hours = 0 -> One
      [] age_hours = WeekHours -> 2718282
      [] OTHER -> 1000 * One

\* math.exp(-age_hours / 168), in millionths, at the ages the model produces
RecencyDecay(age_hours) ==
    CASE age_hours = 0 -> One
      [] age_hours = WeekHours -> 367879
      [] OTHER -> 0

\* The composite score of RankingEngine._rank_hybrid for one result
Composite(result, weights, t) ==
    ( result.score * weights.relevance
      + RecencyDecay((t - result.timestamp) \div 3600) * weights.recency
      + _get_source_trust(result.source) * weights.source_trust
      + (One \div 2) * weights.user_preference ) \div 10

\* A faulty hybrid ranking, which sorts the rewritten scores ascending
_rank_hybrid_ascending(results, weights, t) ==
    Only({ Sorted(scored, [i \in 1..Len(scored) |-> scored[i].score]) :
           scored \in {[i \in 1..Len(results) |->
                         [results[i] EXCEPT !.score = Composite(results[i], weights, t)]]} })

\* RankingEngine._rank_hybrid: rewrites every score, then sorts descending
_rank_hybrid(results, weights, t) ==
    Only({ Sorted(scored, [i \in 1..Len(scored) |-> 0 - scored[i].score]) :
           scored \in {[i \in 1..Len(results) |->
                         [results[i] EXCEPT !.score = Composite(results[i], weights, t)]]} })

\* RankingEngine._rank_by_relevance
_rank_by_relevance(results) ==
    Sorted(results, [i \in 1..Len(results) |-> 0 - results[i].score])

\* A faulty ranking by recency, oldest first
_rank_by_recency_oldest(results) ==
    Sorted(results, [i \in 1..Len(results) |-> results[i].timestamp])

\* RankingEngine._rank_by_recency
_rank_by_recency(results) ==
    Sorted(results, [i \in 1..Len(results) |-> 0 - results[i].timestamp])

\* RankingEngine.rank
rank(results, strategy, weights, t) ==
    IF results = <<>> THEN results
    ELSE IF strategy = "relevance" THEN _rank_by_relevance(results)
    ELSE IF strategy = "recency" THEN _rank_by_recency(results)
    ELSE _rank_hybrid(results, weights, t)

----------------------------------------------------------------------------
(* orchestrator.py: post-processing *)

\* A faulty loop, which removes a duplicate from the list it is iterating
\* over and so passes over the result that follows it
RECURSIVE DedupFromSkipping(_, _)
DedupFromSkipping(results, seen) ==
    IF results = <<>> THEN <<>>
    ELSE LET h == Normalize(Head(results).content)
         IN  IF h \in seen
             THEN IF Tail(results) = <<>> THEN <<>>
                  ELSE <<Head(Tail(results))>> \o DedupFromSkipping(Tail(Tail(results)), seen)
             ELSE <<Head(results)>> \o DedupFromSkipping(Tail(results), seen \cup {h})

\* A faulty loop, which keeps the last result of every normalised content
RECURSIVE DedupFromKeepLast(_, _)
DedupFromKeepLast(results, seen) ==
    IF results = <<>> THEN <<>>
    ELSE LET h == Normalize(Head(results).content)
             later == { Normalize(Tail(results)[i].content) : i \in 1..Len(Tail(results)) }
         IN  IF h \in later THEN DedupFromKeepLast(Tail(results), seen)
             ELSE <<Head(results)>> \o DedupFromKeepLast(Tail(results), seen \cup {h})

\* The loop of QueryOrchestrator._deduplicate_results: seen holds the
\* normalised contents met so far
RECURSIVE DedupFrom(_, _)
DedupFrom(results, seen) ==
    IF results = <<>> THEN <<>>
    ELSE LET h == Normalize(Head(results).content)
         IN  IF h \in seen THEN DedupFrom(Tail(results), seen)
             ELSE <<Head(results)>> \o DedupFrom(Tail(results), seen \cup {h})

\* QueryOrchestrator._deduplicate_results
_deduplicate_results(results) == DedupFrom(results, {})

\* A faulty post-processing, which ranks before it deduplicates
_process_results_rank_first(results, options, t) ==
    IF results = <<>> THEN Returned(<<>>, <<>>, <<>>)
    ELSE IF ~options.given THEN Raised("AttributeError", <<>>)
    ELSE Only({ Returned(Take(IF OptGet(options, "deduplicate", Opt("", 1)).n # 0
                              THEN _deduplicate_results(ranked) ELSE ranked,
                              OptGet(options, "max_results", Opt("", DefaultMaxResults)).n),
                         <<>>, <<>>) :
                ranked \in {rank(results,
                                 OptGet(options, "ranking_strategy", OptS("", "hybrid")).s,
                                 RANKING_WEIGHTS, t)} })

\* QueryOrchestrator._process_results
_process_results(results, options, t) ==
    IF results = <<>> THEN Returned(<<>>, <<>>, <<>>)
    ELSE IF ~options.given THEN Raised("AttributeError", <<>>)
    ELSE Only({ Returned(Take(rank(unique,
                                   OptGet(options, "ranking_strategy", OptS("", "hybrid")).s,
                                   RANKING_WEIGHTS, t),
                              OptGet(options, "max_results", Opt("", DefaultMaxResults)).n),
                         <<>>, <<>>) :
                unique \in {IF OptGet(options, "deduplicate", Opt("", 1)).n # 0
                            THEN _deduplicate_results(results) ELSE results} })

----------------------------------------------------------------------------
(* cache.py *)

\* Optional[int] ttl
NoTTL == [given |-> FALSE, secs |-> 0]
TTL(secs) == [given |-> TRUE, secs |-> secs]

\* Cached values that are not responses: an empty dict, which is falsy in
\* Python, and a non-empty one
EmptyDict == [empty |-> TRUE]
SomeDict == [empty |-> FALSE]

\* The backend's answer for a key it does not hold (None)
NoValue == [found |-> FALSE, value |-> EmptyDict]

\* aiocache's Cache.set(key, value, ttl=ttl) on the backend QueryCache wraps.
\* The ttl the backend was built with (DefaultTTL) applies only when the ttl
\* argument is left out; an explicit ttl of None stores the key without expiry.
BackendSet(st, key, value, ttl, t) ==
    [k \in DOMAIN st \cup {key} |->
        IF k = key THEN [value |-> value, ttl |-> ttl, set_at |-> t] ELSE st[k]]

\* An entry stored with a ttl is gone once the ttl has elapsed
Live(entry, t) == ~entry.ttl.given \/ t < entry.set_at + entry.ttl.secs

\* aiocache's Cache.get(key): the value, or None
BackendGet(st, key, t) ==
    IF key \in DOMAIN st /\ Live(st[key], t)
    THEN [found |-> TRUE, value |-> st[key].value]
    ELSE NoValue

\* QueryCache.set(key, value, ttl=None): hands its ttl on, None included
QueryCache_set(st, key, value, ttl, t) == BackendSet(st, key, value, ttl, t)

\* "if result:" in QueryCache.get and "if cached_result:" in query
IsHit(got) == got.found /\ got.value # EmptyDict

\* A faulty QueryCache.get, with the two counters swapped
QueryCache_get_swapped(st, key, h, m, t) ==
    LET got == BackendGet(st, key, t)
    IN  [result |-> got,
         hits |-> IF IsHit(got) THEN h ELSE h + 1,
         misses |-> IF IsHit(got) THEN m + 1 ELSE m]

\* A faulty QueryCache.get, which counts the hits only
QueryCache_get_hits_only(st, key, h, m, t) ==
    LET got == BackendGet(st, key, t)
    IN  [result |-> got,
         hits |-> IF IsHit(got) THEN h + 1 ELSE h,
         misses |-> m]

\* A faulty QueryCache.get, which starts the misses afresh at every hit
QueryCache_get_misses_afresh(st, key, h, m, t) ==
    LET got == BackendGet(st, key, t)
    IN  [result |-> got,
         hits |-> IF IsHit(got) THEN h + 1 ELSE h,
         misses |-> IF IsHit(got) THEN 0 ELSE m + 1]

\* QueryCache.get: the backend's answer and the counters after it
QueryCache_get(st, key, h, m, t) ==
    LET got == BackendGet(st, key, t)
    IN  [result |-> got,
         hits |-> IF IsHit(got) THEN h + 1 ELSE h,
         misses |-> IF IsHit(got) THEN m ELSE m + 1]

----------------------------------------------------------------------------
(* orchestrator.py: the cache key *)

\* The rank of a source name in Python's string order
NameOrd(name) ==
    CASE name = "cognee" -> 1
      [] name = "llamacloud" -> 2
      [] name = "memento" -> 3
      [] name = "memos" -> 4
      [] OTHER -> 5

\* The rank of an option key in Python's string order
KeyOrd(key) ==
    CASE key = "deduplicate" -> 1
      [] key = "max_results" -> 2
      [] key = "ranking_strategy" -> 3
      [] OTHER -> 4

\* sorted(sources or [])
SortedSources(sources) ==
    Sorted(sources.list, [i \in 1..Len(sources.list) |-> NameOrd(sources.list[i])])

\* sorted(options.items()) if options else ""
SortedOptions(options) ==
    Sorted(options.list, [i \in 1..Len(options.list) |-> KeyOrd(options.list[i].key)])

\* A faulty cache key, built from the sources and options in the order given
_generate_cache_key_unsorted(query, mode, sources, options) ==
    <<query, mode, sources.list, options.list>>

\* QueryOrchestrator._generate_cache_key: the four parts of the f-string
_generate_cache_key(query, mode, sources, options) ==
    <<query, mode, SortedSources(sources), SortedOptions(options)>>

----------------------------------------------------------------------------
(* orchestrator.py: query *)

\* "if not sources: list(self.adapters.keys()) else: [s for s in sources if s in adapters]"
ResolveSources(sources, ads) ==
    IF ~Truthy(sources) THEN ads
    ELSE LET Known(s) == s \in Range(ads) IN SelectSeq(sources.list, Known)

\* The dispatch on mode in query
Dispatch(req, sources, fails, ads, t) ==
    IF req.mode = "unified" THEN _query_unified(sources, req.options, fails, ads, t)
    ELSE IF req.mode = "sequential" THEN _query_sequential(sources, req.options, fails, ads, t)
    ELSE IF req.mode = "parallel" THEN _query_parallel(sources, req.options, fails, ads, t)
    ELSE _query_smart(req.query, sources, req.options, fails, ads, t)

RECURSIVE SumAttempts(_)
SumAttempts(log) ==
    IF log = <<>> THEN 0 ELSE Head(log).attempts + SumAttempts(Tail(log))

\* time.time() - start_time: one unit of time per search attempt awaited
Elapsed(log) == SumAttempts(log)

\* The response dict built by query; len(results) counts the groups of a
\* grouped (parallel) result
Response(req, out, sources, t) ==
    [query |-> req.query,
     mode |-> req.mode,
     results |-> out.results,
     groups |-> out.groups,
     total_results |-> IF req.mode = "parallel" THEN Len(out.groups) ELSE Len(out.results),
     processing_time |-> Elapsed(out.log),
     sources_queried |-> sources,
     metadata |-> [cache_hit |-> FALSE, timestamp |-> t]]

NoResponse ==
    [query |-> <<>>, mode |-> "", results |-> <<>>, groups |-> <<>>,
     total_results |-> 0, processing_time |-> 0, sources_queried |-> <<>>,
     metadata |-> [cache_hit |-> FALSE, timestamp |-> 0]]

\* A faulty _update_stats, which starts the count of the mode afresh
_update_stats_mode_afresh(st, mode, sources, latency) ==
    LET n == st.total_queries + 1
        Count(s) == Cardinality({i \in 1..Len(sources) : sources[i] = s})
    IN  [st EXCEPT
            !.total_queries = n,
            !.queries_by_mode[mode] = 1,
            !.queries_by_source = [s \in DOMAIN @ |-> @[s] + Count(s)],
            !.average_latency = [num |-> @.num + latency, den |-> n]]

\* QueryOrchestrator._update_stats
_update_stats(st, mode, sources, latency) ==
    LET n == st.total_queries + 1
        Count(s) == Cardinality({i \in 1..Len(sources) : sources[i] = s})
    IN  [st EXCEPT
            !.total_queries = n,
            !.queries_by_mode[mode] = @ + 1,
            !.queries_by_source = [s \in DOMAIN @ |-> @[s] + Count(s)],
            !.average_latency = [num |-> @.num + latency, den |-> n]]

\* "if mode != QueryMode.PARALLEL: results = await self._process_results(...)"
Processed(req, out, t) ==
    IF out.raised \/ req.mode = "parallel" THEN out
    ELSE Only({ IF p.raised THEN Raised(p.error, out.log)
                ELSE Returned(p.results, <<>>, out.log) :
                p \in {_process_results(out.results, req.options, t)} })

\* Everything query does after the cache lookup missed, up to the response:
\* source resolution, dispatch and post-processing
Compute(req, fails, ads, t) ==
    Only({ Only({ [sources |-> sources, out |-> Processed(req, out, t)] :
                  out \in {Dispatch(req, sources, fails, ads, t)} }) :
           sources \in {ResolveSources(req.sources, ads)} })

----------------------------------------------------------------------------
(* The inputs of the model *)

Queries == { <<"why", "sky">>, <<"cats", "AND", "dogs">>, <<"report">> }

\* Every query in smart mode, where the text of the query decides the route,
\* and one query in the other modes; on all sources, with empty options
Requests ==
    { r \in [query : Queries, mode : QueryMode, sources : {None},
             options : {Some(<<>>)}] :
        r.mode = "smart" \/ r.query = <<"report">> }

\* One query in every mode, with the explicit source lists: none, empty, a
\* configured and an unconfigured name, only an unconfigured name
SourceArgs ==
    { None, Some(<<>>), Some(<<"memos", "llamacloud">>), Some(<<"llamacloud">>) }

SourceRequests ==
    [query : {<<"report">>}, mode : QueryMode, sources : SourceArgs,
     options : {Some(<<>>)}]

\* Requests that differ in the order of the source list and of the option keys
KeySourceArgs == { Some(<<"cognee", "memos">>), Some(<<"memos", "cognee">>) }

KeyOptionArgs ==
    { Some(<<>>),
      Some(<<Opt("max_results", 1), Opt("deduplicate", 0)>>),
      Some(<<Opt("deduplicate", 0), Opt("max_results", 1)>>) }

\* The keys, values and ttls of the direct cache operations
CacheKeys ==
    { _generate_cache_key(q, "unified", None, Some(<<>>)) : q \in Queries }

CacheValues == {EmptyDict, SomeDict}

TtlArgs == {NoTTL, TTL(DefaultTTL), TTL(2 * DefaultTTL)}

KeyRequests ==
    [query : {<<"report">>}, mode : {"unified", "smart"}, sources : KeySourceArgs,
     options : KeyOptionArgs]

\* Options that cut, keep duplicates and rank by relevance
OptionArgs ==
    { Some(<<>>),
      Some(<<Opt("max_results", 1)>>),
      Some(<<OptS("ranking_strategy", "relevance"), Opt("max_results", 2),
             Opt("deduplicate", 0)>>) }

\* One query in every mode with these options; in parallel mode, which reads
\* none of them, with one
OptionRequests ==
    { r \in [query : {<<"report">>}, mode : QueryMode, sources : {None},
             options : OptionArgs] :
        r.mode = "parallel" => r.options = Some(<<Opt("max_results", 1)>>) }

\* Settings.ENABLED_MEMORY_SYSTEMS where a later source returns a duplicate:
\* one that ranks below the copy of the earlier source (memos), one that
\* ranks above it (llamacloud)
OptionEnabled == { {"cognee", "memos"}, {"cognee", "llamacloud"} }

\* The queries of every analysis: context only, broad only, neither, and both
RouteQueries == Queries \cup { <<"why", "cats", "AND", "dogs">> }

\* and one sequential request
RouteRequests ==
    { r \in [query : RouteQueries, mode : {"smart", "sequential"}, sources : {None},
             options : {Some(<<>>)}] :
        r.mode = "smart" \/ r.query = <<"report">> }

\* Settings.ENABLED_MEMORY_SYSTEMS where smart mode selects several sources
\* for every analysis
RouteEnabled == { {"cognee", "memos", "llamacloud"} }

\* The defaults that the code reads options with, written out
DefaultOptions ==
    Some(<< Opt("max_results", DefaultMaxResults), Opt("deduplicate", 1),
            OptS("ranking_strategy", "hybrid") >>)

\* Every request of Requests with options left out (None, the default of the
\* parameter) and with an empty dict
AbsentOptionRequests ==
    { [r EXCEPT !.options = o] : r \in Requests, o \in {None, Some(<<>>)} }

\* The source lists of the requests in smart mode: none, two recommended
\* sources, one source that no analysis recommends, and that source twice
SmartSourceArgs ==
    { None, Some(<<"memos", "cognee">>), Some(<<"memento">>),
      Some(<<"memento", "memento">>) }

\* The queries of every analysis in smart mode, on these source lists
SmartRequests ==
    [query : RouteQueries, mode : {"smart"}, sources : SmartSourceArgs,
     options : {Some(<<>>)}]

\* QueryRequest.options of an HTTP request: a QueryOptions, or None
QueryOptions(max_results, ranking_strategy, deduplicate) ==
    [given |-> TRUE, max_results |-> max_results,
     ranking_strategy |-> ranking_strategy, deduplicate |-> deduplicate]

NoQueryOptions ==
    [given |-> FALSE, max_results |-> 0, ranking_strategy |-> "", deduplicate |-> 0]

\* QueryOptions.dict(): every field, in the order of declaration
QueryOptions_dict(options) ==
    Some(<< Opt("max_results", options.max_results),
            Opt("include_metadata", 1),
            OptS("ranking_strategy", options.ranking_strategy),
            OptS("filters", ""),
            Opt("boost_recent", 0),
            Opt("deduplicate", options.deduplicate) >>)

\* The bodies of POST /api/query: one query in every mode, without options
\* and with the default QueryOptions
HttpRequests ==
    [query : {<<"report">>}, mode : QueryMode, sources : {None},
     options : {NoQueryOptions, QueryOptions(DefaultMaxResults, "hybrid", 1)}]

\* How many attempts in a row time out on a source during one request
FailCounts == {0, stop_after_attempt}

\* Where the cache backend fails during one request, if it does
Faults == {"none", "get", "set"}

\* What GET <base_url>/health of a memory system does when an adapter probes
\* it: answers 200, answers another status, fails in transport (caught by
\* MemorySystemAdapter.health_check), or makes the health_check of the adapter
\* raise (an adapter that overrides the base method)
Probes == {"up", "down", "unreachable", "raises"}

\* Settings.ENABLED_MEMORY_SYSTEMS for the health check: any set of systems
HealthEnabled == SUBSET SourceNames

NoHealth == [status |-> "", systems |-> <<>>, healthy_systems |-> 0, total_systems |-> 0]

\* How a source behaves during one call on it: the number of attempts in a
\* row that time out, below, at and above the budget, or a transport error
AttemptFaults == (0..(stop_after_attempt + 1)) \cup {TransportError}

\* The source names a call is made on: configured ones, disabled ones and one
\* that no configuration knows
CallSources == Range(InitOrder) \cup {"other"}

\* The longest list of results given to the ranking on its own
MaxRanked == 3

\* The time of the ranking: a week after the oldest result was built
RankAt == WeekHours * 3600

\* Results for the ranking: new and a week old, of trusted and of unknown
\* sources, at both ends of the score range, two of them alike in all that
\* the ranking reads
RankPool ==
    { QueryResult(Raw("a", "Alpha", 900000, {}, {}), "cognee", RankAt),
      QueryResult(Raw("b", "Beta", 800000, {}, {}), "other", 0),
      QueryResult(Raw("c", "Gamma", 900000, {}, {}), "cognee", RankAt),
      QueryResult(Raw("d", "Delta", One, {}, {}), "memos", 0),
      QueryResult(Raw("e", "Epsilon", 0, {}, {}), "memos", RankAt),
      QueryResult(Raw("f", "Zeta", One, {}, {}), "cognee", RankAt),
      QueryResult(Raw("g", "Eta", 0, {}, {}), "other", 0) }

RankLists == UNION { [1..n -> RankPool] : n \in 0..MaxRanked }

\* The weights given to the ranking: every distribution in fifths, the default
\* of Settings.RANKING_WEIGHTS among them
WeightChoices ==
    { w \in [relevance : {0, 2, 4, 6, 8, 10}, recency : {0, 2, 4, 6, 8, 10},
             source_trust : {0, 2, 4, 6, 8, 10},
             user_preference : {0, 2, 4, 6, 8, 10}] :
        w.relevance + w.recency + w.source_trust + w.user_preference = 10 }

\* The strategies with the weights they are ranked under
RankArgs ==
    { a \in [strategy : {"relevance", "recency", "hybrid"}, weights : WeightChoices] :
        a.strategy = "hybrid" \/ a.weights = RANKING_WEIGHTS }

\* The longest list of results given to the deduplication on its own
MaxLen == 3

\* The results the adapters can hand to the deduplication
ResultPool ==
    UNION { { QueryResult(Answer(s)[i], s, 0) : i \in 1..Len(Answer(s)) } : s \in SourceNames }

\* The lists of results the deduplication is given: any order, repeats included
ResultLists == UNION { [1..n -> ResultPool] : n \in 0..MaxLen }

\* The longest query text the analysis endpoint is given, in words
MaxWords == 2

\* Words with and without routing keywords and boolean operators in them
AnalyzeWords ==
    {"why", "show", "who", "when", "pdf", "AND", "ORDER", "sky", "cats", "dogs", "report"}

\* The query parameter of POST /api/query/analyze
AnalyzeQueries == UNION { [1..n -> AnalyzeWords] : n \in 1..MaxWords }

NoBody == [query |-> <<>>, analysis |-> <<>>, recommended_mode |-> "",
           recommended_sources |-> <<>>]

NoRequest == [query |-> <<>>, mode |-> "", sources |-> None, options |-> None]

\* The requests that are in flight together
MaxTasks == 3

\* The requests in order of arrival
TaskIds == 1..MaxTasks

\* A request that has not arrived; pc is the await the coroutine stands at
NoTask ==
    [pc |-> "new", req |-> NoRequest, key |-> <<>>, outcome |-> "", error |-> "",
     sources |-> <<>>, response |-> NoResponse, latency |-> 0,
     calls |-> <<>>, completed |-> <<>>]

NoTasks == [p \in TaskIds |-> NoTask]

\* The requests that arrive together: two modes, on all sources and on one
TaskRequests ==
    { [query |-> <<"report">>, mode |-> "unified", sources |-> None,
       options |-> Some(<<>>)],
      [query |-> <<"report">>, mode |-> "sequential", sources |-> Some(<<"memos">>),
       options |-> Some(<<>>)] }

\* One request whose per-source calls run together: in unified and in
\* parallel mode, with and without deduplication
GatherRequests ==
    [query : {<<"report">>}, mode : {"unified", "parallel"}, sources : {None},
     options : {Some(<<>>), Some(<<Opt("deduplicate", 0)>>)}]

\* A per-source call under gather: whether it runs, returned or raised,
\* and the attempts made so far
NewCall == [state |-> "running", attempts |-> 0]

\* Settings.WORKFLOW_PORT_RANGE, first and last port; (8001, 8010) in
\* config.py, cut to two ports so that a behaviour can use every port
WORKFLOW_PORT_RANGE == <<8001, 8002>>

\* Settings.ENABLED_WORKFLOWS, the keys of WorkflowEngine.workflows after
\* initialize()
ENABLED_WORKFLOWS == {"memory_sync", "document_ingestion", "query_enhancement", "maintenance"}

\* The deploy_workflow calls in flight together
MaxDeploys == 3

\* The calls in order of arrival; a call's number stands for the uuid4 it
\* draws as deployment_id
DeployIds == 1..MaxDeploys

\* The workflow_id arguments: a registered workflow and an unknown one
DeployWorkflows == {"memory_sync", "unknown"}

\* The triggers arguments: none to set up, one that is set up without
\* reading self.deployments, and one whose setup reads
\* self.deployments[deployment_id]
DeployTriggers == { <<"manual">>, <<"schedule">>, <<"webhook">> }

\* A deploy_workflow call that has not been made; pc is the await the
\* coroutine stands at
NoDeploy == [pc |-> "new", workflow_id |-> "", triggers |-> <<>>, port |-> 0, error |-> ""]

NoDeploys == [d \in DeployIds |-> NoDeploy]

\* WorkflowEngine._allocate_port: the first port of the range that no
\* recorded deployment holds, or RuntimeError
_allocate_port(deps) ==
    LET used_ports == { deps[id].port : id \in DOMAIN deps }
        free == (WORKFLOW_PORT_RANGE[1]..WORKFLOW_PORT_RANGE[2]) \ used_ports
    IN  IF free = {} THEN [raised |-> TRUE, port |-> 0]
        ELSE [raised |-> FALSE, port |-> CHOOSE p \in free : \A q \in free : p <= q]

NoLast ==
    [op |-> "", req |-> NoRequest, key |-> <<>>, fault |-> "none", outcome |-> "",
     error |-> "", response |-> NoResponse, log |-> <<>>, sources |-> <<>>,
     down |-> {}, ttl |-> NoTTL, t |-> 0, prev |-> NoRequest, status |-> 0,
     probes |-> <<>>, health |-> NoHealth, body |-> NoBody,
     results |-> <<>>, unique |-> <<>>,
     strategy |-> "", weights |-> RANKING_WEIGHTS, ranked |-> <<>>,
     source |-> "", fails |-> 0]

----------------------------------------------------------------------------
(* QueryOrchestrator.query as one step *)

\* A faulty query, which stores and counts in a finally block: also when the
\* dispatch raised
AfterMiss_finally(req, key, fault, c, same, base, t) ==
    Only({ IF fault = "set"
           THEN same @@ [last |-> [ran EXCEPT !.outcome = "raised", !.error = "CacheError"]]
           ELSE Only({ [same EXCEPT
                          !.store = QueryCache_set(@, key, response, NoTTL, t),
                          !.stats = _update_stats(@, req.mode, c.sources,
                                                  Elapsed(c.out.log))]
                       @@ [last |-> IF c.out.raised
                                    THEN [ran EXCEPT !.outcome = "raised",
                                                     !.error = c.out.error]
                                    ELSE [ran EXCEPT !.outcome = "miss",
                                                     !.response = response]] :
                       response \in {Response(req, c.out, c.sources, t)} }) :
           ran \in {[base EXCEPT !.log = c.out.log, !.sources = c.sources]} })

\* query after a cache miss: same is the orchestrator after the lookup,
\* base what is known of the call so far, c what Compute gave
AfterMiss(req, key, fault, c, same, base, t) ==
    Only({ IF c.out.raised
           THEN same @@ [last |-> [ran EXCEPT !.outcome = "raised", !.error = c.out.error]]
           ELSE IF fault = "set"
           THEN same @@ [last |-> [ran EXCEPT !.outcome = "raised", !.error = "CacheError"]]
           ELSE Only({ [same EXCEPT
                          !.store = QueryCache_set(@, key, response, NoTTL, t),
                          !.stats = _update_stats(@, req.mode, c.sources,
                                                  Elapsed(c.out.log))]
                       @@ [last |-> [ran EXCEPT !.outcome = "miss", !.response = response]] :
                       response \in {Response(req, c.out, c.sources, t)} }) :
           ran \in {[base EXCEPT !.log = c.out.log, !.sources = c.sources]} })

\* The sources whose every attempt times out during the call
Down(fails, ads) == { s \in Range(ads) : fails[s] >= stop_after_attempt }

\* query from the cache lookup on: g is what QueryCache.get gave
AfterGet(req, key, fails, fault, g, ads, same, base, t) ==
    IF IsHit(g.result)
    THEN [same EXCEPT !.hits = g.hits, !.misses = g.misses, !.stats.cache_hit_rate = @ + 1]
         @@ [last |-> [base EXCEPT !.outcome = "hit", !.response = g.result.value]]
    ELSE Only({ AfterMiss(req, key, fault, c,
                          [same EXCEPT !.hits = g.hits, !.misses = g.misses],
                          [base EXCEPT !.down = Down(fails, ads)], t) :
                c \in {Compute(req, fails, ads, t)} })

\* QueryOrchestrator.query on the orchestrator same = [store, hits, misses,
\* stats]: the orchestrator after the call and, in last, what the call did.
\* A cache fault raises out of query at the failing call; a hit returns the
\* stored response; a miss computes, stores and counts.
QueryStep(req, fails, fault, ads, same, t) ==
    Only({ Only({ IF fault = "get"
                  THEN same @@ [last |-> [base EXCEPT !.outcome = "raised",
                                                      !.error = "CacheError"]]
                  ELSE Only({ AfterGet(req, key, fails, fault, g, ads, same, base, t) :
                              g \in {QueryCache_get(same.store, key, same.hits,
                                                    same.misses, t)} }) :
                  base \in {[NoLast EXCEPT !.op = "query", !.req = req, !.key = key,
                                           !.fault = fault, !.t = t]} }) :
           key \in {_generate_cache_key(req.query, req.mode, req.sources, req.options)} })

----------------------------------------------------------------------------
(* Actions *)

\* The service after initialize(), with one of the given sets of enabled
\* memory systems
InitWith(choices) ==
    /\ \E enabled \in choices :
          adapters = SelectSeq(InitOrder, LAMBDA s : s \in enabled)
    /\ store = <<>>
    /\ hits = 0
    /\ misses = 0
    /\ stats = NewStats
    /\ now = 0
    /\ nCalls = 0
    /\ last = NoLast
    /\ tasks = NoTasks
    /\ deployments = <<>>
    /\ deploys = NoDeploys

\* The same service, about to apply one of its functions to arguments that
\* are held in last
InitApplying(calls) ==
    /\ adapters = SelectSeq(InitOrder, LAMBDA s : s \in {"cognee", "memos"})
    /\ store = <<>>
    /\ hits = 0
    /\ misses = 0
    /\ stats = NewStats
    /\ now = 0
    /\ nCalls = 0
    /\ last \in calls
    /\ tasks = NoTasks
    /\ deployments = <<>>
    /\ deploys = NoDeploys

Init == InitWith(EnabledChoices)

InitRoute == InitWith(RouteEnabled)

InitOptions == InitWith(OptionEnabled)

InitHealth == InitWith(HealthEnabled)

\* One call of QueryOrchestrator.query
Query(req, fails, fault) ==
    /\ nCalls < MaxQueries
    /\ \E n \in {QueryStep(req, fails, fault, adapters,
                           [store |-> store, hits |-> hits, misses |-> misses,
                            stats |-> stats], now)} :
           /\ store' = n.store
           /\ hits' = n.hits
           /\ misses' = n.misses
           /\ stats' = n.stats
           /\ last' = [n.last EXCEPT !.prev = last.req]
    /\ nCalls' = nCalls + 1
    /\ UNCHANGED <<adapters, now, tasks, deployments, deploys>>

\* MemorySystemAdapter.health_check on a system that answers the probe as
\* given: True, False, or an exception
health_check(probe) ==
    [raised |-> probe = "raises", healthy |-> probe = "up"]

\* QueryOrchestrator.check_health: every adapter in turn, an exception
\* reported as status "error"
check_health(ads, probes) ==
    Only({ [status |-> IF \E i \in 1..Len(systems) : systems[i].status = "healthy"
                       THEN "healthy" ELSE "unhealthy",
            systems |-> systems,
            healthy_systems |->
                Cardinality({i \in 1..Len(systems) : systems[i].status = "healthy"}),
            total_systems |-> Len(systems)] :
           systems \in {[i \in 1..Len(ads) |->
                           [name |-> ads[i],
                            status |-> IF health_check(probes[ads[i]]).raised THEN "error"
                                       ELSE IF health_check(probes[ads[i]]).healthy
                                       THEN "healthy" ELSE "unhealthy"]]} })

\* A faulty overall health, which wants every system healthy
overall_healthy_all(systems) ==
    \A i \in 1..Len(systems) : systems[i].status = "healthy"

\* any(system["status"] == "healthy" for system in health_status["systems"])
overall_healthy(systems) ==
    \E i \in 1..Len(systems) : systems[i].status = "healthy"

\* GET /health (main.health_check): 503 when no system is healthy
Health(probes) ==
    /\ \E health_status \in {check_health(adapters, probes)} :
          last' = [NoLast EXCEPT
                     !.op = "health", !.t = now, !.probes = probes,
                     !.health = health_status,
                     !.status = IF overall_healthy(health_status.systems)
                                THEN 200 ELSE 503]
    /\ UNCHANGED <<adapters, store, hits, misses, stats, now, nCalls, tasks, deployments, deploys>>

\* GET /health, the memory systems answering in some way
GetHealth == \E probes \in [Range(adapters) -> Probes] : Health(probes)

\* A list of results about to be deduplicated
InitDedup ==
    InitApplying({ [NoLast EXCEPT !.op = "deduplicating", !.results = results] :
                   results \in ResultLists })

\* QueryOrchestrator._deduplicate_results on the list
Deduplicate ==
    /\ last.op = "deduplicating"
    /\ last' = [last EXCEPT
                  !.op = "dedup", !.unique = _deduplicate_results(last.results)]
    /\ UNCHANGED <<adapters, store, hits, misses, stats, now, nCalls, tasks, deployments, deploys>>

\* A list of results about to be ranked at time RankAt
InitRank ==
    InitApplying({ [NoLast EXCEPT
                      !.op = "ranking", !.t = RankAt, !.results = results,
                      !.strategy = a.strategy, !.weights = a.weights] :
                   results \in RankLists, a \in RankArgs })

\* query is called for request p: the cache key is built and the coroutine
\* waits in "await self.cache.get(cache_key)"
query_called(p, req) ==
    /\ tasks[p].pc = "new"
    /\ \A q \in TaskIds : q < p => tasks[q].pc # "new"
    /\ tasks' = [tasks EXCEPT
                   ![p] = [NoTask EXCEPT
                             !.pc = "get", !.req = req,
                             !.key = _generate_cache_key(req.query, req.mode,
                                                         req.sources, req.options)]]
    /\ UNCHANGED <<adapters, store, hits, misses, stats, now, nCalls, last, deployments, deploys>>

\* A faulty query, which counts a request answered from the cache among the
\* queries
query_after_get_counting(p) ==
    /\ tasks[p].pc = "get"
    /\ \E g \in {QueryCache_get(store, tasks[p].key, hits, misses, now)} :
          /\ hits' = g.hits
          /\ misses' = g.misses
          /\ IF IsHit(g.result)
             THEN /\ stats' = [_update_stats(stats, tasks[p].req.mode,
                                             g.result.value.sources_queried, 0)
                                 EXCEPT !.cache_hit_rate = @ + 1]
                  /\ tasks' = [tasks EXCEPT
                                 ![p].pc = "done", ![p].outcome = "hit",
                                 ![p].response = g.result.value]
             ELSE /\ stats' = stats
                  /\ tasks' = [tasks EXCEPT ![p].pc = "dispatch"]
    /\ UNCHANGED <<adapters, store, now, nCalls, last, deployments, deploys>>

\* The cache backend answers request p: QueryCache.get counts, and query
\* either returns the cached response or goes on to the sources and waits
\* in the dispatch
query_after_get(p) ==
    /\ tasks[p].pc = "get"
    /\ \E g \in {QueryCache_get(store, tasks[p].key, hits, misses, now)} :
          /\ hits' = g.hits
          /\ misses' = g.misses
          /\ IF IsHit(g.result)
             THEN /\ stats' = [stats EXCEPT !.cache_hit_rate = @ + 1]
                  /\ tasks' = [tasks EXCEPT
                                 ![p].pc = "done", ![p].outcome = "hit",
                                 ![p].response = g.result.value]
             ELSE /\ stats' = stats
                  /\ tasks' = [tasks EXCEPT ![p].pc = "dispatch"]
    /\ UNCHANGED <<adapters, store, now, nCalls, last, deployments, deploys>>

\* The sources have answered request p or run out of retries: the results
\* are processed, the response is built, and the coroutine waits in
\* "await self.cache.set(cache_key, response)"
query_after_dispatch(p, fails) ==
    /\ tasks[p].pc = "dispatch"
    /\ \E c \in {Compute(tasks[p].req, fails, adapters, now)} :
          tasks' = [tasks EXCEPT
                      ![p] = IF c.out.raised
                             THEN [@ EXCEPT !.pc = "done", !.outcome = "raised",
                                            !.error = c.out.error,
                                            !.sources = c.sources]
                             ELSE [@ EXCEPT !.pc = "set", !.sources = c.sources,
                                            !.response = Response(tasks[p].req, c.out,
                                                                  c.sources, now),
                                            !.latency = Elapsed(c.out.log)]]
    /\ UNCHANGED <<adapters, store, hits, misses, stats, now, nCalls, last, deployments, deploys>>

\* The cache backend has stored the response of request p: _update_stats
\* runs and query returns
query_after_set(p) ==
    /\ tasks[p].pc = "set"
    /\ store' = QueryCache_set(store, tasks[p].key, tasks[p].response, NoTTL, now)
    /\ stats' = _update_stats(stats, tasks[p].req.mode, tasks[p].sources,
                              tasks[p].latency)
    /\ tasks' = [tasks EXCEPT ![p].pc = "done", ![p].outcome = "miss"]
    /\ UNCHANGED <<adapters, hits, misses, now, nCalls, last, deployments, deploys>>

\* The timeouts that call i of the calls met, as _query_single_source takes
\* them: per source, stop_after_attempt for a call that raised
FailsOf(sources, calls) ==
    [s \in Range(adapters) |->
       IF \E i \in 1..Len(sources) : sources[i] = s
       THEN LET i == CHOOSE j \in 1..Len(sources) : sources[j] = s
            IN  IF calls[i].state = "failed" THEN stop_after_attempt
                ELSE calls[i].attempts - 1
       ELSE 0]

\* _query_unified and _query_parallel start their per-source calls and wait
\* in "await asyncio.gather(...)"
gather_called(p) ==
    /\ tasks[p].pc = "dispatch"
    /\ tasks[p].req.mode \in {"unified", "parallel"}
    /\ \E sources \in {ResolveSources(tasks[p].req.sources, adapters)} :
          tasks' = [tasks EXCEPT
                      ![p].pc = "gather", ![p].sources = sources,
                      ![p].calls = [i \in 1..Len(sources) |-> NewCall]]
    /\ UNCHANGED <<adapters, store, hits, misses, stats, now, nCalls, last, deployments, deploys>>

\* An attempt of call i of request p runs into the timeout of wait_for: the
\* search is cancelled, and the call is tried again or, the budget used up,
\* raises
attempt_times_out(p, i) ==
    /\ tasks[p].pc = "gather"
    /\ i \in DOMAIN tasks[p].calls
    /\ tasks[p].calls[i].state = "running"
    /\ LET n == tasks[p].calls[i].attempts + 1
       IN  tasks' = [tasks EXCEPT
                       ![p].calls[i] = [state |-> IF n >= stop_after_attempt
                                                  THEN "failed" ELSE "running",
                                        attempts |-> n],
                       ![p].completed = IF n >= stop_after_attempt
                                        THEN Append(@, i) ELSE @]
    /\ UNCHANGED <<adapters, store, hits, misses, stats, now, nCalls, last, deployments, deploys>>

\* An attempt of call i of request p gets its answer in time: the call returns
attempt_answers(p, i) ==
    /\ tasks[p].pc = "gather"
    /\ i \in DOMAIN tasks[p].calls
    /\ tasks[p].calls[i].state = "running"
    /\ tasks' = [tasks EXCEPT
                   ![p].calls[i] = [state |-> "ok", attempts |-> @.attempts + 1],
                   ![p].completed = Append(@, i)]
    /\ UNCHANGED <<adapters, store, hits, misses, stats, now, nCalls, last, deployments, deploys>>

\* Every call has completed: gather returns, the mode merges or groups the
\* outcomes, query processes them, builds the response and waits in
\* "await self.cache.set(cache_key, response)"
gather_returns(p) ==
    /\ tasks[p].pc = "gather"
    /\ \A i \in DOMAIN tasks[p].calls : tasks[p].calls[i].state # "running"
    /\ \E fails \in {FailsOf(tasks[p].sources, tasks[p].calls)} :
       \E rs \in {[i \in 1..Len(tasks[p].sources) |->
                     _query_single_source(tasks[p].sources[i], NoContext,
                                          tasks[p].req.options, fails, adapters, now)]} :
       \E slots \in {gather(rs, tasks[p].completed)} :
       \E out \in {Processed(tasks[p].req,
                              IF tasks[p].req.mode = "unified" THEN Gathered(slots)
                              ELSE Grouped(tasks[p].sources, slots),
                              now)} :
          tasks' = [tasks EXCEPT
                      ![p] = IF out.raised
                             THEN [@ EXCEPT !.pc = "done", !.outcome = "raised",
                                            !.error = out.error]
                             ELSE [@ EXCEPT !.pc = "set",
                                            !.response = Response(tasks[p].req, out,
                                                                  tasks[p].sources, now),
                                            !.latency = Elapsed(out.log)]]
    /\ UNCHANGED <<adapters, store, hits, misses, stats, now, nCalls, last, deployments, deploys>>

\* One request whose per-source calls are interleaved
GatherArrives == \E req \in GatherRequests : query_called(1, req)

GatherGot == query_after_get(1)

GatherCalled == gather_called(1)

AttemptTimesOut == \E i \in 1..Len(adapters) : attempt_times_out(1, i)

AttemptAnswers == \E i \in 1..Len(adapters) : attempt_answers(1, i)

GatherReturns == gather_returns(1)

GatherStored == query_after_set(1)

\* The event loop runs one of the coroutines up to its next await
TaskArrives == \E p \in TaskIds, req \in TaskRequests : query_called(p, req)

TaskGot == \E p \in TaskIds : query_after_get(p)

TaskDispatched ==
    \E p \in TaskIds, fails \in [Range(adapters) -> FailCounts] :
        query_after_dispatch(p, fails)

TaskStored == \E p \in TaskIds : query_after_set(p)

\* A call of _query_single_source about to be made
InitCall ==
    InitApplying({ [NoLast EXCEPT
                      !.op = "calling", !.source = source, !.fails = f,
                      !.req = [NoRequest EXCEPT !.options = options]] :
                   source \in CallSources, f \in AttemptFaults,
                   options \in {None, Some(<<>>), Some(<<Opt("max_results", 1)>>)} })

\* QueryOrchestrator._query_single_source under its retry decorator
QuerySingleSource ==
    /\ last.op = "calling"
    /\ \E r \in {_query_single_source(last.source, NoContext, last.req.options,
                                       [s \in Range(adapters) |-> last.fails],
                                       adapters, now)} :
          last' = [last EXCEPT
                     !.op = "call",
                     !.outcome = IF r.raised THEN "raised" ELSE "returned",
                     !.error = r.error, !.results = r.results, !.log = r.log]
    /\ UNCHANGED <<adapters, store, hits, misses, stats, now, nCalls, tasks, deployments, deploys>>

\* RankingEngine.rank on the list
Rank ==
    /\ last.op = "ranking"
    /\ last' = [last EXCEPT
                  !.op = "rank",
                  !.ranked = rank(last.results, last.strategy, last.weights, last.t)]
    /\ UNCHANGED <<adapters, store, hits, misses, stats, now, nCalls, tasks, deployments, deploys>>

\* dict.get(key, default) on a dict modelled as a record
DictGet(d, key, default) == IF key \in DOMAIN d THEN d[key] ELSE default

\* POST /api/query/analyze (main.analyze_query)
analyze_endpoint(query) ==
    /\ \E analysis \in {analyze_query(query)} :
          last' = [NoLast EXCEPT
                     !.op = "analyze", !.t = now,
                     !.body = [query |-> query,
                               analysis |-> analysis,
                               recommended_mode |-> DictGet(analysis, "mode", "smart"),
                               recommended_sources |-> DictGet(analysis, "sources", <<>>)]]
    /\ UNCHANGED <<adapters, store, hits, misses, stats, now, nCalls, tasks, deployments, deploys>>

\* POST /api/query/analyze on some query text
PostAnalyze == \E query \in AnalyzeQueries : analyze_endpoint(query)

\* QueryResponse(**result): results must be a list of QueryResult; the
\* grouped result of parallel mode is a dict
QueryResponse_validates(response) == response.mode # "parallel"

\* POST /api/query (main.unified_query): status 200 with the response of
\* query as body, or 500 when anything in the try block raised
unified_query(request, fails, fault) ==
    /\ nCalls < MaxQueries
    /\ \E n \in {QueryStep([request EXCEPT !.options =
                                IF @.given THEN QueryOptions_dict(@) ELSE Some(<<>>)],
                           fails, fault, adapters,
                           [store |-> store, hits |-> hits, misses |-> misses,
                            stats |-> stats], now)} :
           /\ store' = n.store
           /\ hits' = n.hits
           /\ misses' = n.misses
           /\ stats' = n.stats
           /\ last' = [n.last EXCEPT
                          !.prev = last.req,
                          !.status = IF n.last.outcome = "raised" THEN 500
                                     ELSE IF QueryResponse_validates(n.last.response)
                                     THEN 200 ELSE 500]
    /\ nCalls' = nCalls + 1
    /\ UNCHANGED <<adapters, now, tasks, deployments, deploys>>

\* POST /api/query with some body, the sources timing out in some way
PostQuery ==
    \E request \in HttpRequests, fails \in [Range(adapters) -> FailCounts] :
        unified_query(request, fails, "none")

\* Time passes; an entry whose ttl has elapsed stays in store as the last
\* value set for its key, and is no longer Live
Tick ==
    /\ now < MaxTicks * TickSeconds
    /\ now' = now + TickSeconds
    /\ UNCHANGED <<adapters, store, hits, misses, stats, nCalls, last, tasks, deployments, deploys>>

\* query on some request of R, with the sources timing out as some choice
\* from F and the cache backend failing as some choice from K
QueryFrom(R, F, K) ==
    \E req \in R, fails \in [Range(adapters) -> F], fault \in K :
        Query(req, fails, fault)

\* QueryCache.set(key, value, ttl) called directly
CacheSet(key, value, ttl) ==
    /\ nCalls < MaxCacheOps
    /\ store' = QueryCache_set(store, key, value, ttl, now)
    /\ last' = [NoLast EXCEPT !.op = "set", !.key = key, !.response = value,
                              !.ttl = ttl, !.t = now]
    /\ nCalls' = nCalls + 1
    /\ UNCHANGED <<adapters, hits, misses, stats, now, tasks, deployments, deploys>>

\* QueryCache.get(key) called directly
CacheGet(key) ==
    /\ nCalls < MaxCacheOps
    /\ \E g \in {QueryCache_get(store, key, hits, misses, now)} :
          /\ hits' = g.hits
          /\ misses' = g.misses
          /\ last' = [NoLast EXCEPT !.op = "get", !.key = key, !.t = now,
                                    !.outcome = IF g.result.found THEN "found" ELSE "none",
                                    !.response = g.result.value]
    /\ nCalls' = nCalls + 1
    /\ UNCHANGED <<adapters, store, stats, now, tasks, deployments, deploys>>

\* QueryCache.clear()
CacheClear ==
    /\ nCalls < MaxCacheOps
    /\ store' = <<>>
    /\ last' = [NoLast EXCEPT !.op = "clear", !.t = now]
    /\ nCalls' = nCalls + 1
    /\ UNCHANGED <<adapters, hits, misses, stats, now, tasks, deployments, deploys>>

\* Time passes in the cache specification
TickCache ==
    /\ now < MaxCacheTicks * CacheTickSeconds
    /\ now' = now + CacheTickSeconds
    /\ UNCHANGED <<adapters, store, hits, misses, stats, nCalls, last, tasks, deployments, deploys>>

\* deploy_workflow is called as call d: an unknown workflow raises ValueError,
\* a full port range RuntimeError; else the port is allocated and the
\* coroutine waits in "await deploy_workflow(...)" of llama_deploy
deploy_workflow_called(d, workflow_id, triggers) ==
    /\ deploys[d].pc = "new"
    /\ \A e \in DeployIds : e < d => deploys[e].pc # "new"
    /\ \E a \in {_allocate_port(deployments)} :
          deploys' = [deploys EXCEPT
                        ![d] = IF workflow_id \notin ENABLED_WORKFLOWS
                               THEN [NoDeploy EXCEPT
                                       !.pc = "done", !.workflow_id = workflow_id,
                                       !.triggers = triggers, !.error = "ValueError"]
                               ELSE IF a.raised
                               THEN [NoDeploy EXCEPT
                                       !.pc = "done", !.workflow_id = workflow_id,
                                       !.triggers = triggers, !.error = "RuntimeError"]
                               ELSE [NoDeploy EXCEPT
                                       !.pc = "deploying", !.workflow_id = workflow_id,
                                       !.triggers = triggers, !.port = a.port]]
    /\ UNCHANGED <<adapters, store, hits, misses, stats, now, nCalls, last, tasks,
                   deployments>>

\* llama_deploy has deployed the service of call d: the triggers are set up
\* (no await that suspends), the deployment is recorded under its id, and
\* deploy_workflow returns.  _setup_webhook_trigger reads the record of the
\* deployment, which is not stored yet, and raises KeyError.
deploy_workflow_deployed(d) ==
    /\ deploys[d].pc = "deploying"
    /\ IF "webhook" \in Range(deploys[d].triggers)
       THEN /\ deployments' = deployments
            /\ deploys' = [deploys EXCEPT ![d].pc = "done", ![d].error = "KeyError"]
       ELSE /\ deployments' =
                  [id \in DOMAIN deployments \cup {d} |->
                     IF id = d
                     THEN [workflow_id |-> deploys[d].workflow_id, deployment_id |-> d,
                           port |-> deploys[d].port, triggers |-> deploys[d].triggers,
                           status |-> "deployed"]
                     ELSE deployments[id]]
            /\ deploys' = [deploys EXCEPT ![d].pc = "done"]
    /\ UNCHANGED <<adapters, store, hits, misses, stats, now, nCalls, last, tasks>>

\* llama_deploy raises out of "await deploy_workflow(...)" of call d: the
\* exception leaves deploy_workflow, nothing is recorded
deploy_workflow_raised(d) ==
    /\ deploys[d].pc = "deploying"
    /\ deploys' = [deploys EXCEPT ![d].pc = "done", ![d].error = "DeployError"]
    /\ UNCHANGED <<adapters, store, hits, misses, stats, now, nCalls, last, tasks,
                   deployments>>

\* WorkflowEngine._stop_deployment at its last statement: the service has
\* shut down and the record is deleted; until then the record, and so its
\* port, is in self.deployments
_stop_deployment(deployment_id) ==
    /\ deployment_id \in DOMAIN deployments
    /\ deployments' = [id \in DOMAIN deployments \ {deployment_id} |-> deployments[id]]
    /\ UNCHANGED <<adapters, store, hits, misses, stats, now, nCalls, last, tasks,
                   deploys>>

DeployCalled ==
    \E d \in DeployIds, workflow_id \in DeployWorkflows, triggers \in DeployTriggers :
        deploy_workflow_called(d, workflow_id, triggers)

DeployDeployed == \E d \in DeployIds : deploy_workflow_deployed(d)

DeployRaised == \E d \in DeployIds : deploy_workflow_raised(d)

StopDeployment == \E id \in DeployIds : _stop_deployment(id)

\* Deployments made and stopped together, interleaved at their awaits
NextDeploy == DeployCalled \/ DeployDeployed \/ DeployRaised \/ StopDeployment

SpecDeploy == InitWith({{"cognee", "memos"}}) /\ [][NextDeploy]_vars

\* Every query in every mode, sources failing
Next ==
    \/ QueryFrom(Requests, FailCounts, {"none"})
    \/ Tick

Spec == Init /\ [][Next]_vars

\* Explicit source lists, sources failing
NextSources ==
    \/ QueryFrom(SourceRequests, FailCounts, {"none"})
    \/ Tick

SpecSources == Init /\ [][NextSources]_vars

\* Reordered source lists and options
NextKey ==
    \/ QueryFrom(KeyRequests, {0}, {"none"})
    \/ Tick

SpecKey == Init /\ [][NextKey]_vars

\* Every query in every mode, the cache backend failing
NextFault ==
    \/ QueryFrom(Requests, {0}, Faults)
    \/ Tick

SpecFault == Init /\ [][NextFault]_vars

\* The cache used directly: set, get and clear on a few keys, time passing
NextCache ==
    \/ \E key \in CacheKeys, value \in CacheValues, ttl \in TtlArgs :
          CacheSet(key, value, ttl)
    \/ \E key \in CacheKeys : CacheGet(key)
    \/ CacheClear
    \/ TickCache

SpecCache == Init /\ [][NextCache]_vars

\* Every mode with options, sources failing
NextOptions ==
    QueryFrom(OptionRequests, FailCounts, {"none"})

SpecOptions == InitOptions /\ [][NextOptions]_vars

\* Requests over HTTP, sources failing
NextHttp ==
    \/ PostQuery
    \/ Tick

SpecHttp == Init /\ [][NextHttp]_vars

\* The health endpoint, with any set of memory systems enabled
NextHealth == GetHealth

SpecHealth == InitHealth /\ [][NextHealth]_vars

\* The deduplication on its own
NextDedup == Deduplicate

SpecDedup == InitDedup /\ [][NextDedup]_vars

\* Requests in flight together, interleaved at their awaits
NextTasks == TaskArrives \/ TaskGot \/ TaskDispatched \/ TaskStored

SpecTasks == InitWith({{"cognee", "memos"}}) /\ [][NextTasks]_vars

\* The per-source call on its own
NextCall == QuerySingleSource

SpecCall == InitCall /\ [][NextCall]_vars

\* One request in unified or parallel mode, its per-source calls interleaved
NextGather ==
    \/ GatherArrives
    \/ GatherGot
    \/ GatherCalled
    \/ AttemptTimesOut
    \/ AttemptAnswers
    \/ GatherReturns
    \/ GatherStored

SpecGather == InitRoute /\ [][NextGather]_vars

\* The ranking on its own
NextRank == Rank

SpecRank == InitRank /\ [][NextRank]_vars

\* The analysis endpoint
NextAnalyze == PostAnalyze

SpecAnalyze == Init /\ [][NextAnalyze]_vars

\* Every query in every mode without options, every source answering
NextAbsent ==
    QueryFrom(AbsentOptionRequests, {0}, {"none"})

SpecAbsent == Init /\ [][NextAbsent]_vars

\* Smart mode on restricted source lists, every memory system enabled
NextSmart ==
    QueryFrom(SmartRequests, {0}, {"none"})

SpecSmart == InitWith({SourceNames}) /\ [][NextSmart]_vars

\* Smart mode on queries of every analysis, sources failing
NextRoute ==
    QueryFrom(RouteRequests, FailCounts, {"none"})

SpecRoute == InitRoute /\ [][NextRoute]_vars

----------------------------------------------------------------------------
(* Properties *)

\* The calls of the last query that raised, and those that returned
FailedCalls == { i \in 1..Len(last.log) : ~last.log[i].ok }
OkCalls == { i \in 1..Len(last.log) : last.log[i].ok }

\* The ids of the results of the last response, and of what source s answers
ResultIds == { last.response.results[i].id : i \in 1..Len(last.response.results) }
AnswerIds(s) == { Answer(s)[i].id : i \in 1..Len(Answer(s)) }

\* C1: when the cache holds an entry for the key of the request, query
\* returns that cached response, counts one hit (and no miss), and searches no
\* source
CacheHitFastPath ==
    [][ (/\ nCalls' = nCalls + 1
         /\ last'.op = "query"
         /\ BackendGet(store,
                       _generate_cache_key(last'.req.query, last'.req.mode,
                                           last'.req.sources, last'.req.options),
                       now).found)
        => (/\ last'.outcome = "hit"
            /\ last'.response = store[last'.key].value
            /\ hits' = hits + 1
            /\ misses' = misses
            /\ last'.log = <<>>
            /\ store' = store) ]_vars

\* A query answered from the cache
CacheHitFastPathReached ==
    /\ last.op = "query"
    /\ last.outcome = "hit"
    /\ hits = 1
    /\ last.response.results # <<>>

Computed == last.op = "query" /\ last.fault = "none" /\ last.outcome # "hit"

\* The analysis of the last query takes the single-source path of smart mode
SingleSourcePath ==
    /\ last.req.mode = "smart"
    /\ ~analyze_query(last.req.query).requires_context
    /\ ~analyze_query(last.req.query).broad_search

\* C3: in smart mode on the single-source path, the failure of the first
\* source call after its retries does not fail the request: query returns a
\* response
SmartPrimaryFailureTolerated ==
    (/\ Computed
     /\ SingleSourcePath
     /\ last.log # <<>>
     /\ ~last.log[1].ok)
    => last.outcome = "miss"

\* C4: in every mode, when every resolved source fails, query raises no
\* error and returns a response with no result and total_results 0
TotalSourceExhaustion ==
    (/\ Computed
     /\ last.sources # <<>>
     /\ Range(last.sources) \subseteq last.down)
    => (/\ last.outcome = "miss"
        /\ last.response.results = <<>>
        /\ \A i \in 1..Len(last.response.groups) :
              last.response.groups[i].results = <<>>
        /\ last.response.total_results = 0)

\* C5: in every mode, when the resolved source set is empty, query calls no
\* adapter, raises no error and returns a response with zero results
EmptyResolvedSourceSet ==
    (/\ Computed
     /\ ResolveSources(last.req.sources, adapters) = <<>>)
    => (/\ last.log = <<>>
        /\ last.outcome = "miss"
        /\ last.response.results = <<>>
        /\ \A i \in 1..Len(last.response.groups) :
              last.response.groups[i].results = <<>>
        /\ last.response.total_results = 0)

\* The names of the request's explicit source list that are not configured
UnknownNames ==
    { last.req.sources.list[i] : i \in 1..Len(last.req.sources.list) } \ Range(adapters)

\* C6: the resolved source set is the explicit list of the request cut to
\* the configured adapters, or all configured adapters when no list is given;
\* unknown names are dropped without an error; no search is made on a source
\* outside the configured adapters
SourceResolution ==
    Computed
    => (/\ last.sources =
              IF last.req.sources.given
              THEN SelectSeq(last.req.sources.list, LAMBDA s : s \in Range(adapters))
              ELSE adapters
        /\ UnknownNames # {} => last.outcome = "miss"
        /\ \A k \in 1..Len(last.log) : last.log[k].source \in Range(adapters))

\* The sequences x and y hold the same items, each as many times
SameItems(x, y) ==
    /\ Len(x) = Len(y)
    /\ \A e \in Range(x) \cup Range(y) :
          Cardinality({i \in 1..Len(x) : x[i] = e}) =
          Cardinality({i \in 1..Len(y) : y[i] = e})

\* The requests a and b differ at most in the order of the explicit source
\* list and in the order of the option keys
Reordered(a, b) ==
    /\ a.query = b.query
    /\ a.mode = b.mode
    /\ a.sources.given = b.sources.given
    /\ SameItems(a.sources.list, b.sources.list)
    /\ a.options.given = b.options.given
    /\ SameItems(a.options.list, b.options.list)

\* C7: two requests that differ only in the order of the source list and of
\* the option keys have the same cache key, and the second call, made within
\* the ttl after the first completed, returns the response of the first
\* from the cache and searches no source
CacheKeyCanonicalization ==
    [][ (/\ nCalls' = nCalls + 1
         /\ last'.op = "query"
         /\ last.op = "query"
         /\ last.outcome \in {"miss", "hit"}
         /\ Reordered(last.req, last'.req)
         /\ now < last.t + DefaultTTL)
        => (/\ last'.key = last.key
            /\ last'.outcome = "hit"
            /\ last'.response = last.response
            /\ last'.log = <<>>) ]_vars

\* A query answered from the cache entry of a request with the same sources
\* and options in another order
CacheKeyCanonicalizationReached ==
    /\ last.op = "query"
    /\ last.outcome = "hit"
    /\ Reordered(last.prev, last.req)
    /\ last.prev.sources.list # last.req.sources.list
    /\ last.prev.options.list # last.req.options.list
    /\ last.response.results # <<>>

\* The keys the cache answers at the present time
LiveKeys == { k \in DOMAIN store : Live(store[k], now) }

\* C8: after any sequence of set operations the cache never holds more than
\* max_size live entries
CacheBound == Cardinality(LiveKeys) <= max_size

\* C9: get(k) right after set(k, v, ttl) returns v, and get(k) once the ttl
\* of the entry has elapsed (the default ttl when set was given none) returns
\* a miss
CacheRoundTripAndExpiry ==
    (last.op = "get" /\ last.key \in DOMAIN store)
    => LET entry == store[last.key]
           ttl == IF entry.ttl.given THEN entry.ttl.secs ELSE DefaultTTL
       IN  /\ last.t = entry.set_at
               => (last.outcome = "found" /\ last.response = entry.value)
           /\ last.t >= entry.set_at + ttl
               => last.outcome = "none"

\* C10: when the get or the set of the cache backend fails, the failure does
\* not make query fail, and a failed lookup is followed by the search of the
\* sources
CacheBackendUnavailable ==
    (last.op = "query" /\ last.fault # "none")
    => (/\ last.error # "CacheError"
        /\ last.fault = "get"
            => (/\ last.outcome # "hit"
                /\ last.sources = ResolveSources(last.req.sources, adapters)))

\* What the source s hands to the chain of sequential mode in the last
\* query: its results, or nothing when its call failed
HandedOn(s) ==
    IF s \in last.down THEN <<>>
    ELSE [i \in 1..Len(Answer(s)) |-> QueryResult(Answer(s)[i], s, last.t)]

\* The keywords and entities of the first five results that the sources
\* before sel[k] handed on
ContextBefore(sel, k) ==
    LET top == { <<j, i>> \in (1..(k - 1)) \X (1..5) :
                   /\ i <= Len(HandedOn(sel[j]))
                   /\ HandedOn(sel[j])[i].has_terms }
    IN  [key_terms |-> UNION { HandedOn(sel[p[1]])[p[2]].keywords : p \in top },
         entities |-> UNION { HandedOn(sel[p[1]])[p[2]].entities : p \in top }]

\* The last query searched the sources sel in order, each with the context
\* of the sources before it (the sequential strategy)
RanSequential(sel) ==
    /\ last.outcome = "miss"
    /\ Len(last.log) = Len(sel)
    /\ \A k \in 1..Len(sel) :
          /\ last.log[k].source = sel[k]
          /\ last.log[k].hint = ContextBefore(sel, k)

\* The last query searched the sources sel, each with the query as given
\* (the unified strategy)
RanUnified(sel) ==
    /\ last.outcome = "miss"
    /\ Len(last.log) = Len(sel)
    /\ \A k \in 1..Len(sel) :
          /\ last.log[k].source = sel[k]
          /\ last.log[k].hint = NoContext

\* The sources smart mode selects for the last query
Selected ==
    _select_sources_for_query(analyze_query(last.req.query), last.sources, adapters)

\* C11: a query containing "why", "how" or "explain" is analysed as
\* requiring context and smart mode runs it through the sequential strategy,
\* also when it is flagged broad; a query flagged broad only runs through the
\* unified strategy
SmartRoutingPrecedence ==
    (Computed /\ last.req.mode = "smart")
    => LET analysis == analyze_query(last.req.query)
       IN  /\ AnyTerm(last.req.query, {"how", "why", "explain"})
               => analysis.requires_context
           /\ analysis.requires_context => RanSequential(Selected)
           /\ (analysis.broad_search /\ ~analysis.requires_context)
               => RanUnified(Selected)

\* A smart query flagged both ways, whose second search was given the
\* context of the first
SmartRoutingPrecedenceReached ==
    /\ Computed
    /\ last.req.mode = "smart"
    /\ analyze_query(last.req.query).requires_context
    /\ analyze_query(last.req.query).broad_search
    /\ last.outcome = "miss"
    /\ \E k \in 1..Len(last.log) : last.log[k].hint # NoContext

\* max_results of the last request
MaxResults == OptGet(last.req.options, "max_results", Opt("", DefaultMaxResults)).n

SequentialChain ==
    (Computed /\ last.req.mode = "sequential")
    => (/\ RanSequential(last.sources)
        /\ \A k \in 1..Len(last.log) :
              /\ last.log[k].ok <=> last.log[k].source \notin last.down
              /\ ~last.log[k].ok => last.log[k].attempts = stop_after_attempt
        /\ \A i \in 1..Len(last.response.results) :
              last.response.results[i].source \notin last.down)

\* A sequential query whose second source failed and whose third source
\* was searched with the context of the first
SequentialChainReached ==
    /\ Computed
    /\ last.req.mode = "sequential"
    /\ last.outcome = "miss"
    /\ Len(last.log) = 3
    /\ last.log[1].ok
    /\ ~last.log[2].ok
    /\ last.log[3].ok
    /\ last.log[3].hint # NoContext
    /\ last.response.results # <<>>

\* The results the sources ss handed on, in the order of ss
HandedOnBy(ss) == Flatten([k \in 1..Len(ss) |-> HandedOn(ss[k])])

\* The results the strategy of the last query collected, before
\* post-processing
RawResults ==
    IF last.req.mode # "smart" THEN HandedOnBy(last.sources)
    ELSE IF \/ analyze_query(last.req.query).requires_context
            \/ analyze_query(last.req.query).broad_search
    THEN HandedOnBy(Selected)
    ELSE IF Len(HandedOn(Selected[1])) < MaxResults
    THEN HandedOnBy(Selected)
    ELSE HandedOn(Selected[1])

\* C14: in unified, sequential and smart modes the results of the response
\* are what the sources returned, deduplicated (unless the deduplicate option
\* is off), then ranked, then cut to max_results: never more than max_results
\* results, in ranking order, the first of the ranked list
PostProcessing ==
    (Computed /\ last.req.mode # "parallel" /\ last.outcome = "miss")
    => LET unique == IF OptGet(last.req.options, "deduplicate", Opt("", 1)).n # 0
                     THEN _deduplicate_results(RawResults) ELSE RawResults
           ranked == rank(unique,
                          OptGet(last.req.options, "ranking_strategy",
                                 OptS("", "hybrid")).s,
                          RANKING_WEIGHTS, last.t)
           results == last.response.results
       IN  /\ Len(results) <= MaxResults
           /\ results = Take(ranked, MaxResults)
           /\ \A i, j \in 1..Len(results) : i < j => results[i].score >= results[j].score
           /\ unique = RawResults
               \/ \A i, j \in 1..Len(results) :
                     i # j => Normalize(results[i].content) # Normalize(results[j].content)

\* A query whose results lost a duplicate that would have ranked above the
\* copy that was kept, and were cut to max_results
PostProcessingReached ==
    /\ Computed
    /\ last.req.mode # "parallel"
    /\ last.outcome = "miss"
    /\ Len(last.response.results) = MaxResults
    /\ Len(_deduplicate_results(RawResults)) > MaxResults
    /\ \E i, j \in 1..Len(RawResults) :
          /\ i < j
          /\ Normalize(RawResults[i].content) = Normalize(RawResults[j].content)
          /\ Composite(RawResults[i], RANKING_WEIGHTS, last.t)
                < Composite(RawResults[j], RANKING_WEIGHTS, last.t)

\* C15: POST /api/query answers 500 only when query raised; whenever query
\* returned a response, in any mode, the endpoint answers 200
HttpErrorSurface ==
    (last.op = "query" /\ last.status # 0)
    => (/\ last.status = 500 => last.outcome = "raised"
        /\ last.outcome \in {"miss", "hit"} => last.status = 200)

\* The last query returned a response, computed or from the cache
Answered == last.op = "query" /\ last.outcome \in {"miss", "hit"}

\* C16: sources_queried of the response names a source exactly when a
\* search was attempted on it for the request
SourcesQueriedExact ==
    (Computed /\ last.outcome = "miss")
    => Range(last.response.sources_queried)
         = { last.log[k].source : k \in 1..Len(last.log) }

\* C17: total_results of the response is the number of results it carries,
\* over all groups in parallel mode
TotalResultsCount ==
    Answered
    => last.response.total_results
         = Len(last.response.results)
           + Len(Flatten([i \in 1..Len(last.response.groups) |->
                            last.response.groups[i].results]))

\* C18: GET /health answers 503 only when no memory system is healthy and
\* succeeds when at least one is; an adapter whose health check raises is
\* reported as a system that is not healthy, and every adapter is reported
HealthSurface ==
    last.op = "health"
    => (/\ last.status \in {200, 503}
        /\ last.status = 503 <=> \A s \in Range(adapters) : last.probes[s] # "up"
        /\ Len(last.health.systems) = Len(adapters)
        /\ \A i \in 1..Len(adapters) :
              /\ last.health.systems[i].name = adapters[i]
              /\ last.health.systems[i].status = "healthy"
                    <=> last.probes[adapters[i]] = "up"
              /\ last.probes[adapters[i]] = "raises"
                    => last.health.systems[i].status = "error")

\* A health check that succeeded although the check of an earlier adapter
\* raised and another system is unhealthy
HealthSurfaceReached ==
    /\ last.op = "health"
    /\ last.status = 200
    /\ \E i, j, k \in 1..Len(adapters) :
          /\ i < j
          /\ last.probes[adapters[i]] = "raises"
          /\ last.health.systems[j].status = "healthy"
          /\ last.health.systems[k].status = "unhealthy"

\* C19: POST /api/query/analyze returns, as recommended_mode and
\* recommended_sources, the mode and the list of recommended sources of the
\* analysis of the query
AnalyzeRecommendation ==
    last.op = "analyze"
    => /\ last.body.analysis = analyze_query(last.body.query)
       /\ last.body.recommended_mode = last.body.analysis.mode
       /\ last.body.recommended_sources = last.body.analysis.recommended_sources

\* C20: deduplicating a list that is already deduplicated returns it
\* unchanged
DedupIdempotent ==
    last.op = "dedup" => _deduplicate_results(last.unique) = last.unique

\* A deduplication that removed a duplicate on which another result followed,
\* and kept several results
DedupIdempotentReached ==
    /\ last.op = "dedup"
    /\ Len(last.unique) >= 2
    /\ \E i \in 1..(Len(last.results) - 1) :
          Normalize(last.results[i].content)
            \in { Normalize(last.results[j].content) : j \in 1..(i - 1) }

\* C21: under weights that form a distribution, on raw scores between 0 and 1
\* and results not younger than the ranking, every score the hybrid ranking
\* writes is between 0 and 1
HybridScoreBound ==
    ( /\ last.op = "rank"
      /\ last.strategy = "hybrid"
      /\ \A k \in DOMAIN last.weights : last.weights[k] >= 0
      /\ last.weights.relevance + last.weights.recency + last.weights.source_trust
            + last.weights.user_preference = 10
      /\ \A i \in 1..Len(last.results) :
            /\ last.results[i].score \in 0..One
            /\ last.results[i].timestamp <= last.t )
    => \A i \in 1..Len(last.ranked) : last.ranked[i].score \in 0..One

\* A hybrid ranking that wrote the score 1 and a score below 1
HybridScoreBoundReached ==
    /\ last.op = "rank"
    /\ last.strategy = "hybrid"
    /\ last.weights.relevance = 10
    /\ Len(last.ranked) >= 2
    /\ last.ranked[1].score = One
    /\ last.ranked[Len(last.ranked)].score < One

\* The requests whose QueryCache.get call has completed
GetsCompleted == { p \in TaskIds : tasks[p].pc \in {"dispatch", "set", "done"} }

\* C22: however the concurrent callers interleave, every QueryCache.get call
\* adds one to exactly one of hits and misses: after n completed calls
\* hits + misses = n, a step that completes no call leaves both counters
\* alone, and neither counter ever decreases
HitMissAccounting ==
    /\ [](hits + misses = Cardinality(GetsCompleted))
    /\ [][ /\ hits' >= hits
           /\ misses' >= misses
           /\ (hits' - hits) + (misses' - misses)
                = Cardinality({ p \in TaskIds : tasks[p].pc = "get" /\ tasks'[p].pc # "get" })
         ]_vars

\* Three requests of one key in flight together: two missed the cache while
\* neither had stored its response, the third was answered from the cache
HitMissAccountingReached ==
    /\ hits = 1
    /\ misses = 2
    /\ \E p, q, r \in TaskIds :
          /\ p # q
          /\ tasks[p].key = tasks[q].key /\ tasks[q].key = tasks[r].key
          /\ tasks[p].pc = "set"
          /\ tasks[q].pc = "done" /\ tasks[q].outcome = "miss"
          /\ tasks[r].pc = "done" /\ tasks[r].outcome = "hit"

\* The requests that completed on the cache-miss path
Missed == { p \in TaskIds : tasks[p].pc = "done" /\ tasks[p].outcome = "miss" }

RECURSIVE SumLatency(_)
SumLatency(ps) ==
    IF ps = {} THEN 0
    ELSE LET p == CHOOSE q \in ps : TRUE
         IN  tasks[p].latency + SumLatency(ps \ {p})

\* C23: however the concurrent requests interleave, no update of the
\* statistics is lost: total_queries is the number of requests completed on
\* the cache-miss path, every per-mode and per-source counter is the number
\* of those requests with that mode or with that source among the sources
\* they give as queried, and average_latency is the mean of their latencies
NoLostStatistics ==
    /\ stats.total_queries = Cardinality(Missed)
    /\ \A m \in QueryMode :
          stats.queries_by_mode[m] = Cardinality({ p \in Missed : tasks[p].req.mode = m })
    /\ \A s \in SourceNames :
          stats.queries_by_source[s]
            = Cardinality({ p \in Missed : s \in Range(tasks[p].sources) })
    /\ Missed # {}
         => stats.average_latency = [num |-> SumLatency(Missed), den |-> Cardinality(Missed)]

\* Two requests of one key that both missed the cache, so ran together, and a
\* third of another mode, all completed, with different latencies
NoLostStatisticsReached ==
    /\ Cardinality(Missed) >= 3
    /\ \E p, q, r \in Missed :
          /\ p # q
          /\ tasks[p].key = tasks[q].key
          /\ tasks[r].req.mode # tasks[p].req.mode
          /\ tasks[p].latency # tasks[q].latency

\* C24: on the default path of smart mode the first search is on the top
\* selected source, with the query as given, and the call on it ends before
\* any other; the remaining selected sources are searched after it, each
\* with the query as given, exactly when the first call returned fewer than
\* max_results results
SmartDefaultPath ==
    (/\ Computed
     /\ SingleSourcePath
     /\ last.req.options.given
     /\ Selected # <<>>)
    => /\ last.log # <<>>
       /\ last.log[1].source = Selected[1]
       /\ last.log[1].hint = NoContext
       /\ LET rest == [k \in 1..(Len(last.log) - 1) |-> last.log[k + 1]]
          IN  IF last.log[1].ok /\ Len(Answer(Selected[1])) < MaxResults
              THEN /\ [k \in 1..Len(rest) |-> rest[k].source] = Tail(Selected)
                   /\ \A k \in 1..Len(rest) : rest[k].hint = NoContext
              ELSE rest = <<>>

\* A smart query on the default path whose first source returned exactly
\* max_results results, and that searched no other source although one more
\* was selected
SmartDefaultPathReached ==
    /\ Computed
    /\ SingleSourcePath
    /\ last.outcome = "miss"
    /\ Len(Selected) > 1
    /\ Len(last.log) = 1
    /\ last.log[1].ok
    /\ Len(Answer(Selected[1])) = MaxResults

\* C25: a call on a source that no adapter serves returns no result and
\* searches nothing; on a served source the search is attempted again after
\* a timeout and after a transport error, stop_after_attempt times at most,
\* the first attempt that succeeds ends the call with the results of the
\* source, and after stop_after_attempt failed attempts the call raises
PerSourceCallContract ==
    (last.op = "call" /\ last.req.options.given)
    => IF last.source \notin Range(adapters)
       THEN last.outcome = "returned" /\ last.results = <<>> /\ last.log = <<>>
       ELSE LET failing == IF last.fails = TransportError
                           THEN stop_after_attempt ELSE last.fails
            IN  /\ Len(last.log) = 1
                /\ last.log[1].source = last.source
                /\ IF failing >= stop_after_attempt
                   THEN /\ last.outcome = "raised"
                        /\ last.log[1].attempts = stop_after_attempt
                   ELSE /\ last.outcome = "returned"
                        /\ last.log[1].attempts = failing + 1
                        /\ Len(last.results) = Len(Answer(last.source))

\* The normalized contents of a list of results
Contents(results) == { Normalize(results[i].content) : i \in 1..Len(results) }

\* The request whose per-source calls are followed
Gathering == tasks[1]

\* C26: in unified and parallel modes a call that times out leaves the calls
\* on the other sources as they are; the response is built only when every
\* call has returned or has used up its attempts, the request raises
\* nothing, and the response holds every result of every call that returned:
\* in its group (parallel), or among the results, where the post-processing
\* may have kept an earlier duplicate in its place (unified)
TimeoutIsolation ==
    /\ [](Gathering.pc \in {"set", "done"}
           => /\ Gathering.outcome # "raised"
              /\ \A i \in DOMAIN Gathering.calls :
                    /\ Gathering.calls[i].state \in {"ok", "failed"}
                    /\ Gathering.calls[i].state = "failed"
                          => Gathering.calls[i].attempts = stop_after_attempt
                    /\ Gathering.calls[i].state = "ok"
                          => LET answer == Answer(Gathering.sources[i])
                                 results == Gathering.response.results
                                 dedup == OptGet(Gathering.req.options, "deduplicate",
                                                 Opt("", 1)).n # 0
                             IN  IF Gathering.req.mode = "parallel"
                                 THEN /\ Gathering.response.groups[i].source
                                           = Gathering.sources[i]
                                      /\ [k \in 1..Len(answer) |->
                                            Gathering.response.groups[i].results[k].id]
                                           = [k \in 1..Len(answer) |-> answer[k].id]
                                 ELSE \A k \in 1..Len(answer) :
                                        \/ \E r \in 1..Len(results) :
                                              results[r].id = answer[k].id
                                        \/ /\ dedup
                                           /\ Normalize(answer[k].content)
                                                \in Contents(results))
    /\ [][ \A i \in DOMAIN Gathering.calls :
             (/\ Gathering.pc = "gather"
              /\ Gathering'.pc = "gather"
              /\ Gathering'.calls[i] # Gathering.calls[i])
             => \A j \in DOMAIN Gathering.calls :
                   j # i => Gathering'.calls[j] = Gathering.calls[j] ]_vars

\* A response built after the call on the first source had used up its
\* attempts while the others, which completed after it, returned
TimeoutIsolationReached ==
    /\ Gathering.pc = "done"
    /\ Gathering.outcome = "miss"
    /\ Len(Gathering.calls) = 3
    /\ Gathering.calls[1].state = "failed"
    /\ Gathering.completed[1] = 1
    /\ Gathering.calls[2].state = "ok"
    /\ Gathering.calls[3].state = "ok" /\ Gathering.calls[3].attempts = 2

\* C27: in unified mode the normalized contents of the results of the
\* response are those of the answers of the sources whose calls returned,
\* whatever the order in which the calls completed
InterleavingIndependence ==
    (/\ Gathering.pc \in {"set", "done"}
     /\ Gathering.req.mode = "unified")
    => Contents(Gathering.response.results)
         = UNION { Contents(Answer(Gathering.sources[i])) :
                   i \in { j \in DOMAIN Gathering.calls :
                             Gathering.calls[j].state = "ok" } }

\* A deduplicated unified response whose calls completed in the reverse of
\* the order of the sources, two of which hold a duplicate of a result of the
\* first
InterleavingIndependenceReached ==
    /\ Gathering.pc = "done"
    /\ Gathering.outcome = "miss"
    /\ Gathering.req.mode = "unified"
    /\ Gathering.req.options = Some(<<>>)
    /\ Gathering.completed = <<3, 2, 1>>
    /\ \A i \in DOMAIN Gathering.calls : Gathering.calls[i].state = "ok"
    /\ Len(Gathering.response.results) = 3

\* The places of the list given to the deduplication whose content, lowered
\* and stripped, no earlier place has
FirstOccurrences ==
    { i \in 1..Len(last.results) :
        \A j \in 1..(i - 1) :
           Normalize(last.results[j].content) # Normalize(last.results[i].content) }

\* C28: the deduplication returns the results at the first occurrences of
\* their content (compared lowered and stripped), in the order of the input,
\* and no other result
DedupRule ==
    last.op = "dedup"
    => /\ Len(last.unique) = Cardinality(FirstOccurrences)
       /\ \A k \in 1..Len(last.unique) :
             last.unique[k]
               = last.results[CHOOSE i \in FirstOccurrences :
                                 Cardinality({ j \in FirstOccurrences : j <= i }) = k]

\* A deduplication that kept two results in their order and dropped a third,
\* which differs from the first in case or whitespace only
DedupRuleReached ==
    /\ last.op = "dedup"
    /\ Len(last.results) = 3
    /\ Len(last.unique) = 2
    /\ last.results[3].content # last.results[1].content
    /\ Normalize(last.results[3].content) = Normalize(last.results[1].content)
    /\ last.unique = <<last.results[1], last.results[2]>>

\* The ways of putting the results given to the ranking in an order
Orders == Permutations(1..Len(last.results))

\* The composite score of the result at place i of the list given to the
\* ranking, under the weights given (in tenths)
CompositeAt(i) ==
    ( last.results[i].score * last.weights.relevance
      + RecencyDecay((last.t - last.results[i].timestamp) \div 3600) * last.weights.recency
      + _get_source_trust(last.results[i].source) * last.weights.source_trust
      + (One \div 2) * last.weights.user_preference ) \div 10

\* C29: the hybrid ranking returns the results given, each with its composite
\* score written in place of its score, in descending order of that score,
\* results of equal composite score in the order they were given; under the
\* default weights a result of score 0.9, age 0 and trust 0.9 stands before
\* one of score 0.8, age 168 h and trust 0.5, with a strictly greater score
HybridRankingOrder ==
    (last.op = "rank" /\ last.strategy = "hybrid")
    => /\ \E p \in Orders :
             /\ Len(last.ranked) = Len(last.results)
             /\ \A k \in 1..Len(last.ranked) :
                   last.ranked[k] = [last.results[p[k]] EXCEPT !.score = CompositeAt(p[k])]
             /\ \A k, l \in 1..Len(last.ranked) :
                   k < l => \/ last.ranked[k].score > last.ranked[l].score
                            \/ /\ last.ranked[k].score = last.ranked[l].score
                               /\ p[k] < p[l]
       /\ last.weights = RANKING_WEIGHTS
            => \A k, l \in 1..Len(last.ranked) :
                  (/\ last.ranked[k].id = "a"
                   /\ last.ranked[l].id = "b")
                  => k < l /\ last.ranked[k].score > last.ranked[l].score

\* A hybrid ranking under the default weights that moved the older result of
\* the unknown source behind two newer ones of equal composite score, which
\* kept their order
HybridRankingOrderReached ==
    /\ last.op = "rank"
    /\ last.strategy = "hybrid"
    /\ last.weights = RANKING_WEIGHTS
    /\ [k \in 1..Len(last.results) |-> last.results[k].id] = <<"b", "c", "a">>
    /\ [k \in 1..Len(last.ranked) |-> last.ranked[k].id] = <<"c", "a", "b">>
    /\ last.ranked[1].score = last.ranked[2].score
    /\ last.ranked[3].score = 593575

\* The key the last ranking sorts by, for the result at place i of its input
SortKeyAt(i) ==
    IF last.strategy = "relevance" THEN last.results[i].score
    ELSE last.results[i].timestamp

\* C30: the relevance and the recency ranking return the results given,
\* unchanged, in descending order of score (relevance) or of timestamp
\* (recency), results of equal key in the order they were given
PlainRankingOrder ==
    (last.op = "rank" /\ last.strategy \in {"relevance", "recency"})
    => \E p \in Orders :
          /\ Len(last.ranked) = Len(last.results)
          /\ \A k \in 1..Len(last.ranked) : last.ranked[k] = last.results[p[k]]
          /\ \A k, l \in 1..Len(last.ranked) :
                k < l => \/ SortKeyAt(p[k]) > SortKeyAt(p[l])
                         \/ /\ SortKeyAt(p[k]) = SortKeyAt(p[l])
                            /\ p[k] < p[l]

\* A ranking by recency that moved the oldest result behind two newer ones
\* of the same timestamp, which kept their order, and left the scores alone
PlainRankingOrderReached ==
    /\ last.op = "rank"
    /\ last.strategy = "recency"
    /\ [k \in 1..Len(last.results) |-> last.results[k].id] = <<"d", "e", "f">>
    /\ last.ranked = <<last.results[2], last.results[3], last.results[1]>>


\* C31: over any sequence of query calls (hits, misses, failures),
\* total_queries, every per-mode count, every per-source count and the hit and
\* miss counts of the cache never decrease, so none of them is ever reset
CountersMonotone ==
    [][ /\ stats'.total_queries >= stats.total_queries
        /\ \A m \in QueryMode :
              stats'.queries_by_mode[m] >= stats.queries_by_mode[m]
        /\ \A s \in SourceNames :
              stats'.queries_by_source[s] >= stats.queries_by_source[s]
        /\ hits' >= hits
        /\ misses' >= misses ]_vars

\* A query that failed after one that was counted: the counts are kept
CountersMonotoneReached ==
    /\ nCalls = 2
    /\ last.op = "query"
    /\ last.outcome = "raised"
    /\ misses = 2
    /\ stats.total_queries = 1
    /\ \E s \in SourceNames : stats.queries_by_source[s] = 1

\* The boolean operators that stand as words of their own in the query
OperatorWords(query) == { query[i] : i \in 1..Len(query) } \cap {"AND", "OR", "NOT"}

\* C32: analyze_query reports complexity "complex" and broad_search = true
\* when the query has more than 10 whitespace-separated tokens or contains a
\* boolean operator (AND, OR, NOT), and complexity "simple" with
\* broad_search = false otherwise
ComplexityRule ==
    last.op = "analyze"
    => IF Len(last.body.query) > 10 \/ OperatorWords(last.body.query) # {}
       THEN /\ last.body.analysis.complexity = "complex"
            /\ last.body.analysis.broad_search
       ELSE /\ last.body.analysis.complexity = "simple"
            /\ ~last.body.analysis.broad_search

\* C33: query called without options (options = None) behaves like a call
\* with the default options (max_results 10, deduplicate on, hybrid ranking):
\* in every mode it returns the response that call returns and does not fail
OptionsAbsent ==
    (/\ last.op = "query"
     /\ ~last.req.options.given
     /\ last.outcome # "hit")
    => \E c \in {Compute([last.req EXCEPT !.options = DefaultOptions],
                          [s \in Range(adapters) |-> 0], adapters, last.t)} :
          /\ last.outcome = "miss"
          /\ ~c.out.raised
          /\ last.response.results = c.out.results
          /\ last.response.groups = c.out.groups

\* C34: when query raises, no cache entry is written and total_queries, the
\* per-mode and per-source counters and average_latency are left unchanged;
\* when the identical request follows, it misses the cache and calls the
\* backends again
StateUnchangedOnFailure ==
    [][ /\ (/\ nCalls' = nCalls + 1
            /\ last'.op = "query"
            /\ last'.outcome = "raised")
           => (/\ store' = store
               /\ stats'.total_queries = stats.total_queries
               /\ stats'.queries_by_mode = stats.queries_by_mode
               /\ stats'.queries_by_source = stats.queries_by_source
               /\ stats'.average_latency = stats.average_latency)
        /\ (/\ last.op = "query"
            /\ last.outcome = "raised"
            /\ nCalls' = nCalls + 1
            /\ last'.op = "query"
            /\ last'.req = last.req
            /\ adapters # <<>>)
           => (/\ last'.outcome # "hit"
               /\ last'.log # <<>>) ]_vars

\* A request that failed in the primary source call of smart mode, made again
\* after a request that was answered: the backends were called again and the
\* cache and the statistics hold the answered request only
StateUnchangedOnFailureReached ==
    /\ nCalls = 2
    /\ last.op = "query"
    /\ last.req.mode = "smart"
    /\ last.outcome = "raised"
    /\ last.error = "RetryError"
    /\ last.log # <<>>
    /\ stats.total_queries = 1
    /\ Cardinality(DOMAIN store) = 1

\* The sum of the per-mode counters
SumByMode ==
    stats.queries_by_mode["unified"] + stats.queries_by_mode["sequential"]
      + stats.queries_by_mode["parallel"] + stats.queries_by_mode["smart"]

\* C35: after any sequence of query calls total_queries equals the sum of the
\* queries_by_mode counts and the number of calls that completed on the
\* cache-miss path, and a call served from the cache changes none of
\* total_queries, queries_by_mode, queries_by_source and average_latency
StatisticsAccounting ==
    /\ [](/\ stats.total_queries = SumByMode
           /\ stats.total_queries = Cardinality(Missed))
    /\ [][ (\E p \in TaskIds : tasks[p].pc = "get" /\ tasks'[p].outcome = "hit")
           => (/\ stats'.total_queries = stats.total_queries
               /\ stats'.queries_by_mode = stats.queries_by_mode
               /\ stats'.queries_by_source = stats.queries_by_source
               /\ stats'.average_latency = stats.average_latency) ]_vars

\* Two requests of different modes that missed, and a third answered from
\* the cache: two queries are counted, one per mode
StatisticsAccountingReached ==
    /\ \A p \in TaskIds : tasks[p].pc = "done"
    /\ hits = 1
    /\ Cardinality(Missed) = 2
    /\ stats.total_queries = 2
    /\ stats.queries_by_mode["unified"] = 1
    /\ stats.queries_by_mode["sequential"] = 1

\* C36: the metadata.cache_hit flag of a response is true exactly when the
\* response was served from the cache, and false exactly when it was computed
\* by querying the backends
CacheHitFlag ==
    (last.op = "query" /\ last.outcome \in {"hit", "miss"})
    => (last.response.metadata.cache_hit <=> last.outcome = "hit")

\* C37: in smart mode, for every query and every outcome of the analysis,
\* each source that search is invoked on belongs to the resolved source set of
\* the request, and no source is selected twice
SmartNeverWidens ==
    (/\ last.op = "query"
     /\ last.req.mode = "smart"
     /\ last.outcome # "hit")
    => (/\ \A k \in 1..Len(last.log) :
              last.log[k].source \in Range(ResolveSources(last.req.sources, adapters))
        /\ \A j, k \in 1..Len(last.log) :
              j # k => last.log[j].source # last.log[k].source)

\* C38: the cache_hit_rate of the query statistics is a rate: it lies in
\* [0, 1] and equals the cache hits divided by the cache lookups, 0 when there
\* was no lookup
CacheHitRateIsRate ==
    /\ 0 <= stats.cache_hit_rate
    /\ stats.cache_hit_rate <= 1
    /\ IF hits + misses = 0 THEN stats.cache_hit_rate = 0
       ELSE stats.cache_hit_rate * (hits + misses) = hits

\* The ports of the configured range
PortRange == WORKFLOW_PORT_RANGE[1]..WORKFLOW_PORT_RANGE[2]

\* C39: under any interleaving of concurrent deploy_workflow calls, no two
\* live deployments have the same port, every assigned port lies in the
\* configured range, and a deploy made when every port of the range is in use
\* fails with an error and records no deployment
PortAllocation ==
    /\ [](/\ \A a, b \in DOMAIN deployments :
                a # b => deployments[a].port # deployments[b].port
           /\ \A id \in DOMAIN deployments : deployments[id].port \in PortRange)
    /\ [][ \A d \in DeployIds :
             (/\ deploys[d].pc = "new"
              /\ deploys'[d].pc # "new"
              /\ deploys'[d].workflow_id \in ENABLED_WORKFLOWS
              /\ PortRange \subseteq { deployments[id].port : id \in DOMAIN deployments })
             => (/\ deploys'[d].pc = "done"
                 /\ deploys'[d].error = "RuntimeError"
                 /\ deployments' = deployments) ]_vars

============================================================================
